---- MODULE Spec2Model ----
(***************************************************************************)
(* Backtest simulator of sites/echo (src/backtesting/backtester.py) with   *)
(* the indicator library it reads (src/scrapers/stock_data.py).            *)
(*                                                                         *)
(* Numbers.  The program computes in binary floating point; the model      *)
(* computes the same expressions exactly on integers:                      *)
(*   - a close / high / low is an integer number of price ticks;           *)
(*   - every price-like derived value (SMA, EMA, ATR, target, stop) is an  *)
(*     integer number of 1/Unit ticks, Unit being a common denominator of  *)
(*     the window lengths 14, 20, 50 and of the factor 1.5, so that the    *)
(*     rolling means and the target/stop levels are exact;                 *)
(*   - an EMA is kept to 1/Unit tick (floor), the resolution of the model; *)
(*   - a confidence is an integer number of thousandths (0.6 is 600);      *)
(*   - a percentage is an integer number of 1/PctScale percent (floor).    *)
(* NaN is the record NaN, a defined number v is Num(v); every comparison   *)
(* with NaN is FALSE, as in IEEE arithmetic.  None is the empty set and a  *)
(* present optional value v is {v}.                                        *)
(***************************************************************************)
EXTENDS Integers, Sequences, FiniteSets, TLC

\* ------------------------------------------------------------------ bounds
\* Number of bars a fetched history may hold after the 50 warm-up bars.
MaxTail == 3
\* Number of signals the trend category of a scored list may hold.
MaxSignals == 2

\* ------------------------------------------------------ program constants
\* backtester.py:227 (len(df) < 50) and :240 (range(50, len(df)))
WarmUp == 50
\* backtester.py:248  confidence > 0.6, in thousandths
EntryConfidence == 600
\* backtester.py:291  holding_days > 30
MaxHoldingDays == 30
\* stock_data.py:355  calculate_atr(high, low, close, 14)
AtrPeriod == 14
\* stock_data.py:340  calculate_rsi(close, 14)
RsiPeriod == 14
\* stock_data.py:270  calculate_bollinger_bands(period=20)
BbPeriod == 20
\* stock_data.py:249-251  calculate_macd(fast=12, slow=26, signal=9)
MacdFast == 12
MacdSlow == 26
MacdSignal == 9
\* stock_data.py:304  calculate_stochastic(k_period=14)
StochPeriod == 14
\* stock_data.py:305  calculate_stochastic(d_period=3)
StochSmooth == 3
\* stock_data.py:335  calculate_sma(close, 200)
SmaLong == 200
\* technical.py:121  len(df) < 20
MinObservations == 20
\* technical.py:575  _find_support_resistance(num_levels=3)
NumLevels == 3
\* technical.py:588-589  df[...].iloc[-50:]
LevelBars == 50

\* Common denominator of the price-like values (14 * 50 = 700 = 20 * 35).
Unit == 14 * 50
\* Percentages are kept to 1/100 of a percent.
PctScale == 10 * 10

\* ------------------------------------------------------------ NaN, None
NaN == [nan |-> TRUE, v |-> 0]
Num(x) == [nan |-> FALSE, v |-> x]
None == {}
Some(x) == {x}

\* IEEE comparisons: FALSE as soon as one side is NaN.
Gt(a, b) == ~a.nan /\ ~b.nan /\ a.v > b.v
Lt(a, b) == ~a.nan /\ ~b.nan /\ a.v < b.v
Ge(a, b) == ~a.nan /\ ~b.nan /\ a.v >= b.v
Le(a, b) == ~a.nan /\ ~b.nan /\ a.v <= b.v
\* IEEE arithmetic: NaN as soon as one side is NaN.
Add(a, b) == IF a.nan \/ b.nan THEN NaN ELSE Num(a.v + b.v)
Sub(a, b) == IF a.nan \/ b.nan THEN NaN ELSE Num(a.v - b.v)
Abs(x) == IF x < 0 THEN -x ELSE x
Max2(x, y) == IF x >= y THEN x ELSE y

\* ------------------------------------------------- the fetched histories
\* What get_historical_data hands back for one symbol: None, or a frame of
\* bars.  A frame is described by the shape of its first bars, its index
\* (calendar), the number n of those first bars, the closes of the bars that
\* follow them, and whether it has the High/Low columns.  Positions are
\* 0-based, as in the program.
Shapes == {"flat", "spike", "step", "gap"}
Calendars == {"daily", "sparse", "int"}
TailCloses == {90, 100, 121, 124}
\* The first bars close at base, but for one bar at spike in a "spike" frame
\* and for the last nine at raised in a "step" frame, and they fall by fall
\* per bar down to base in a "falling" frame; a bar has
\* high = close + half and low = close - half, with no intraday range
\* (half = 0) in a "flat" frame; the bars of a "sparse" calendar are days
\* days apart.
Bars == [base |-> 100, spike |-> 140, raised |-> 117, half |-> 1, days |-> 31,
         fall |-> 4, volume |-> 12]
Half(shape) == IF shape \in {"flat", "rising"} THEN 0 ELSE Bars.half
SpikeAt == WarmUp - 8
StepAt == WarmUp - 9
GapAt == WarmUp - 5

RECURSIVE SeqsUpTo(_, _)
SeqsUpTo(S, n) ==
    IF n = 0 THEN {<<>>}
    ELSE LET shorter == SeqsUpTo(S, n - 1)
         IN  shorter \cup {Append(s, x) : s \in {t \in shorter : Len(t) = n - 1}, x \in S}

\* A rising history of 60 bars: the closes start at 100 and gain 1% per bar,
\* round(1000 * 1.01^k) in ticks of 0.1, with high = low = close.
RisingCloses ==
    <<
     1000, 1010, 1020, 1030, 1041, 1051, 1062, 1072, 1083, 1094,
     1105, 1116, 1127, 1138, 1149, 1161, 1173, 1184, 1196, 1208,
     1220, 1232, 1245, 1257, 1270, 1282, 1295, 1308, 1321, 1335,
     1348, 1361, 1375, 1389, 1403, 1417, 1431, 1445, 1460, 1474,
     1489, 1504, 1519, 1534, 1549, 1565, 1580, 1596, 1612, 1628,
     1645, 1661, 1678, 1694, 1711, 1729, 1746, 1763, 1781, 1799>>
RisingFrames ==
    [shape : {"rising"}, cal : Calendars, n : {WarmUp},
     tail : {SubSeq(RisingCloses, WarmUp + 1, Len(RisingCloses))}, ohlc : {TRUE}]

\* The full histories: a flat one on each calendar, the others on the daily
\* one, and the rising one on each calendar.
GoodFrames ==
    {f \in [shape : Shapes, cal : Calendars, n : {WarmUp},
             tail : SeqsUpTo(TailCloses, MaxTail), ohlc : {TRUE}] :
        f.shape = "flat" \/ f.cal = "daily"}
    \cup RisingFrames
ShortFrame == [shape |-> "flat", cal |-> "daily", n |-> WarmUp - 1, tail |-> <<>>, ohlc |-> TRUE]
NoHighFrame == [shape |-> "flat", cal |-> "daily", n |-> WarmUp, tail |-> <<100>>, ohlc |-> FALSE]

FrameLen(df) == df.n + Len(df.tail)

\* df[close_col].iloc[k]
CloseAt(df, k) ==
    IF k >= df.n THEN df.tail[k - df.n + 1]
    ELSE IF df.shape = "spike" /\ k = SpikeAt THEN Bars.spike
    ELSE IF df.shape = "step" /\ k >= StepAt THEN Bars.raised
    ELSE IF df.shape = "rising" THEN RisingCloses[k + 1]
    ELSE IF df.shape = "falling" THEN Bars.base + Bars.fall * (df.n - 1 - k)
    ELSE Bars.base

\* df["High"].iloc[k], df["Low"].iloc[k]: NaN on the one bar of a "gap" frame
\* for which the provider has a close only.
HighAt(df, k) ==
    IF df.shape = "gap" /\ k = GapAt THEN NaN ELSE Num(CloseAt(df, k) + Half(df.shape))
LowAt(df, k) ==
    IF df.shape = "gap" /\ k = GapAt THEN NaN ELSE Num(CloseAt(df, k) - Half(df.shape))

\* The Volume column of the frames handed to the analyzer, described by the
\* field vol: "none" (no such column), or volume on every bar but the last,
\* which has twice as much ("surge"), a quarter ("dry") or the same ("steady").
HasVolume(df) == df.vol # "none"
VolumeAt(df, k) ==
    IF k = df.n + Len(df.tail) - 1 /\ df.vol = "surge" THEN 2 * Bars.volume
    ELSE IF k = df.n + Len(df.tail) - 1 /\ df.vol = "dry" THEN Bars.volume \div 4
    ELSE Bars.volume

\* df.index[k]: a timestamp counted in days, or a plain integer label.
DateAt(df, k) == IF df.cal = "sparse" THEN Bars.days * k ELSE k
IsDatetimeIndex(df) == df.cal # "int"

\* df.iloc[:m]: the first m bars.
Truncate(df, m) ==
    IF m >= FrameLen(df) THEN df
    ELSE IF m >= df.n THEN [df EXCEPT !.tail = SubSeq(df.tail, 1, m - df.n)]
    ELSE [df EXCEPT !.n = m, !.tail = <<>>]

\* ------------------------------------------------------ indicator library
\* Sum of f[k] over k in lo..hi.
RECURSIVE SumOver(_, _, _)
SumOver(f, lo, hi) ==
    IF lo > hi THEN 0
    ELSE IF lo = hi THEN f[lo]
    ELSE LET mid == (lo + hi) \div 2
         IN  SumOver(f, lo, mid) + SumOver(f, mid + 1, hi)

\* data.rolling(window=period).mean() of the closes, at position i, in 1/Unit
\* tick: NaN until the window is full.
calculate_sma(df, period, i) ==
    IF i + 1 < period THEN NaN
    ELSE LET c == [k \in (i - period + 1)..i |-> CloseAt(df, k)]
         IN  Num((Unit \div period) * SumOver(c, i - period + 1, i))

\* data.diff() at position k: NaN at position 0.
Delta(df, k) == IF k = 0 THEN NaN ELSE Num(CloseAt(df, k) - CloseAt(df, k - 1))
\* delta.where(delta > 0, 0) and -delta.where(delta < 0, 0): where the test is
\* false (also for the NaN at position 0) the value is replaced by 0.
GainAt(df, k) == IF Gt(Delta(df, k), Num(0)) THEN Delta(df, k).v ELSE 0
LossAt(df, k) == IF Lt(Delta(df, k), Num(0)) THEN -Delta(df, k).v ELSE 0

\* calculate_rsi at position i, as the fraction num/den (den > 0).  With gain
\* and loss the rolling sums (the two means share the divisor period):
\*   rs = gain / loss is NaN for 0/0 and inf for gain/0,
\*   rsi = 100 - 100 / (1 + rs) is NaN, 100, or 100 * gain / (gain + loss).
calculate_rsi(df, period, i) ==
    IF i + 1 < period THEN [nan |-> TRUE, num |-> 0, den |-> 1]
    ELSE LET g == SumOver([k \in (i - period + 1)..i |-> GainAt(df, k)], i - period + 1, i)
             l == SumOver([k \in (i - period + 1)..i |-> LossAt(df, k)], i - period + 1, i)
         IN  IF l = 0 /\ g = 0 THEN [nan |-> TRUE, num |-> 0, den |-> 1]
             ELSE IF l = 0 THEN [nan |-> FALSE, num |-> 100, den |-> 1]
             ELSE [nan |-> FALSE, num |-> 100 * g, den |-> g + l]
\* rsi < c and rsi > c for an integer c.
RsiLt(r, c) == ~r.nan /\ r.num < c * r.den
RsiGt(r, c) == ~r.nan /\ r.num > c * r.den

\* One step of data.ewm(span=span, adjust=False).mean():
\*   y[0] = x[0],  y[t] = (1 - a) * y[t-1] + a * x[t]  with a = 2 / (span + 1).
EwmStep(prev, x, span) == ((span - 1) * prev + 2 * x) \div (span + 1)

\* calculate_macd up to position i: the two EMAs of the close and the EMA of
\* their difference, in 1/Unit tick.
MacdFirst(x) == [fast |-> x, slow |-> x, signal |-> 0]
MacdStep(p, x) ==
    LET f == EwmStep(p.fast, x, MacdFast)
        s == EwmStep(p.slow, x, MacdSlow)
    IN  [fast |-> f, slow |-> s, signal |-> EwmStep(p.signal, f - s, MacdSignal)]
\* The fold of MacdStep over the bars a..b, from the state p before bar a.  The
\* range is halved and the state after the first half is bound as a value
\* before the second half is folded, which keeps the evaluation shallow.
RECURSIVE MacdOver(_, _, _, _)
MacdOver(df, a, b, p) ==
    IF a > b THEN p
    ELSE IF a = b THEN MacdStep(p, Unit * CloseAt(df, a))
    ELSE LET mid == (a + b) \div 2
         IN  CHOOSE r \in {MacdOver(df, mid + 1, b, q) : q \in {MacdOver(df, a, mid, p)}} : TRUE
MacdAt(df, i) == MacdOver(df, 1, i, MacdFirst(Unit * CloseAt(df, 0)))
calculate_macd(df, i) ==
    LET m == MacdAt(df, i)
    IN  [macd |-> Num(m.fast - m.slow), signal |-> Num(m.signal)]

\* calculate_bollinger_bands at position i.  With S the sum and Q the sum of
\* squares of the closes of the window, middle = S / period and
\* std^2 = (period * Q - S^2) / (period * (period - 1)); the record keeps S and
\* D = period * Q - S^2, so that upper = S/period + 2 * sqrt(D / (period *
\* (period - 1))) and lower = S/period - 2 * sqrt(...) are compared exactly.
calculate_bollinger_bands(df, period, i) ==
    IF i + 1 < period THEN [nan |-> TRUE, S |-> 0, D |-> 0]
    ELSE LET c == [k \in (i - period + 1)..i |-> CloseAt(df, k)]
             q == [k \in (i - period + 1)..i |-> CloseAt(df, k) * CloseAt(df, k)]
             S == SumOver(c, i - period + 1, i)
             Q == SumOver(q, i - period + 1, i)
         IN  [nan |-> FALSE, S |-> S, D |-> period * Q - S * S]
\* price <= bb_lower, price >= bb_upper, price < bb_middle for period = 20, k = 2:
\*   S/20 - price >= 2 * sqrt(D / 380)  iff  19 * (S - 20 price)^2 >= 80 * D.
LeLower(price, bb) ==
    ~bb.nan /\ bb.S - BbPeriod * price >= 0
    /\ (BbPeriod - 1) * (bb.S - BbPeriod * price) * (bb.S - BbPeriod * price) >= 4 * BbPeriod * bb.D
GeUpper(price, bb) ==
    ~bb.nan /\ BbPeriod * price - bb.S >= 0
    /\ (BbPeriod - 1) * (BbPeriod * price - bb.S) * (BbPeriod * price - bb.S) >= 4 * BbPeriod * bb.D
LtMiddle(price, bb) == ~bb.nan /\ BbPeriod * price < bb.S

\* The true range at position k: pd.concat([tr1, tr2, tr3], axis=1).max(axis=1)
\* skips the NaN entries of a row and is NaN only when the three are NaN.
TrueRange(df, k) ==
    LET h == HighAt(df, k)
        l == LowAt(df, k)
        pc == IF k = 0 THEN NaN ELSE Num(CloseAt(df, k - 1))
        tr1 == Sub(h, l)
        d2 == Sub(h, pc)
        d3 == Sub(l, pc)
        tr2 == IF d2.nan THEN NaN ELSE Num(Abs(d2.v))
        tr3 == IF d3.nan THEN NaN ELSE Num(Abs(d3.v))
        defined == {t.v : t \in {x \in {tr1, tr2, tr3} : ~x.nan}}
    IN  IF defined = {} THEN NaN
        ELSE Num(CHOOSE m \in defined : \A x \in defined : m >= x)

\* calculate_atr at position i, in 1/Unit tick: the rolling mean is NaN until the
\* window is full and whenever the window holds a NaN.
calculate_atr(df, period, i) ==
    IF i + 1 < period THEN NaN
    ELSE IF \E k \in (i - period + 1)..i : TrueRange(df, k).nan THEN NaN
    ELSE LET tr == [k \in (i - period + 1)..i |-> TrueRange(df, k).v]
         IN  Num((Unit \div period) * SumOver(tr, i - period + 1, i))

\* calculate_stochastic, the "k" series at position i, as the fraction
\* num/den: the rolling minimum of the lows and maximum of the highs are NaN
\* until the window is full and whenever the window holds a NaN;
\*   k = 100 * (close - lowest_low) / (highest_high - lowest_low)
\* is NaN for 0/0 and infinite (inf) for x/0.
calculate_stochastic(df, k_period, i) ==
    IF i + 1 < k_period THEN [nan |-> TRUE, inf |-> FALSE, num |-> 0, den |-> 1]
    ELSE IF \E k \in (i - k_period + 1)..i : HighAt(df, k).nan \/ LowAt(df, k).nan
         THEN [nan |-> TRUE, inf |-> FALSE, num |-> 0, den |-> 1]
    ELSE LET lows == {LowAt(df, k).v : k \in (i - k_period + 1)..i}
             highs == {HighAt(df, k).v : k \in (i - k_period + 1)..i}
             lowest_low == CHOOSE m \in lows : \A x \in lows : m <= x
             highest_high == CHOOSE m \in highs : \A x \in highs : m >= x
         IN  IF highest_high = lowest_low
             THEN [nan |-> CloseAt(df, i) = lowest_low, inf |-> CloseAt(df, i) # lowest_low,
                   num |-> 0, den |-> 1]
             ELSE [nan |-> FALSE, inf |-> FALSE,
                   num |-> 100 * (CloseAt(df, i) - lowest_low), den |-> highest_high - lowest_low]

\* The "d" series of calculate_stochastic against its "k" series at position
\* i: d = k.rolling(3).mean() is NaN when one of the last three k is; else
\*   k > d  iff  (d_period - 1) * k[i] > k[i-1] + k[i-2].
StochAboveD(df, k_period, i) ==
    LET k3 == calculate_stochastic(df, k_period, i)
        k2 == calculate_stochastic(df, k_period, i - 1)
        k1 == calculate_stochastic(df, k_period, i - 2)
    IN  /\ i + 1 >= StochSmooth
        /\ \A k \in {k1, k2, k3} : ~k.nan /\ ~k.inf
        /\ (StochSmooth - 1) * k3.num * k1.den * k2.den
               > k1.num * k2.den * k3.den + k2.num * k1.den * k3.den

\* calculate_obv: the direction of the close-to-close change at position k
\* (0 for the NaN of position 0), and obv[i] - obv[j], the sum of
\* volume * direction over the positions j+1..i.
Direction(df, k) ==
    IF Gt(Delta(df, k), Num(0)) THEN 1 ELSE IF Lt(Delta(df, k), Num(0)) THEN -1 ELSE 0
ObvChange(df, j, i) ==
    SumOver([k \in (j + 1)..i |-> VolumeAt(df, k) * Direction(df, k)], j + 1, i)

\* The columns calculate_all_indicators adds that the simulator reads.
IndicatorColumns ==
    {"sma_20", "sma_50", "rsi_14", "macd", "macd_signal",
     "bb_upper", "bb_middle", "bb_lower", "atr_14"}

\* ------------------------------------------------------------- strategies
\* A signal is <<name, confidence>>, the confidence in thousandths.
\* statistics.mean of a list of confidences.
RECURSIVE SumSeq(_)
SumSeq(q) == IF q = <<>> THEN 0 ELSE Head(q) + SumSeq(Tail(q))
Mean(q) == SumSeq(q) \div Len(q)
SelectConf(signals, name) ==
    LET sel == SelectSeq(signals, LAMBDA s : s[1] = name)
    IN  [j \in 1..Len(sel) |-> sel[j][2]]

\* _technical_strategy_signal on df.iloc[:i+1]: the last row of the columns.
RsiVote(df, i) ==
    LET rsi == calculate_rsi(df, RsiPeriod, i)
    IN  IF rsi.nan THEN <<>>
        ELSE IF RsiLt(rsi, 30) THEN << <<"buy", 800>> >>
        ELSE IF RsiGt(rsi, 70) THEN << <<"sell", 800>> >>
        ELSE << <<"hold", 500>> >>
MacdVote(df, i) ==
    LET m == calculate_macd(df, i)
    IN  IF m.macd.nan \/ m.signal.nan THEN <<>>
        ELSE IF Gt(m.macd, m.signal) THEN << <<"buy", 700>> >>
        ELSE << <<"sell", 700>> >>
SmaVote(df, i) ==
    LET sma_20 == calculate_sma(df, 20, i)
        sma_50 == calculate_sma(df, 50, i)
        current_price == Num(Unit * CloseAt(df, i))
    IN  IF sma_20.nan \/ sma_50.nan THEN <<>>
        ELSE IF Gt(current_price, sma_20) /\ Gt(sma_20, sma_50) THEN << <<"buy", 750>> >>
        ELSE IF Lt(current_price, sma_20) /\ Lt(sma_20, sma_50) THEN << <<"sell", 750>> >>
        ELSE <<>>
\* technical_strategy_signal with a tie between buy and sell votes going to "buy".
technical_strategy_signalTieBuys(df, i) ==
    LET signals == RsiVote(df, i) \o MacdVote(df, i) \o SmaVote(df, i)
        buys == SelectConf(signals, "buy")
        sells == SelectConf(signals, "sell")
    IN  IF signals = <<>> THEN <<"hold", 500>>
        ELSE IF buys # <<>> /\ Len(buys) >= Len(sells) THEN <<"buy", Mean(buys)>>
        ELSE IF Len(sells) > Len(buys) THEN <<"sell", Mean(sells)>>
        ELSE <<"hold", 500>>

technical_strategy_signal(df, i) ==
    LET signals == RsiVote(df, i) \o MacdVote(df, i) \o SmaVote(df, i)
        buys == SelectConf(signals, "buy")
        sells == SelectConf(signals, "sell")
    IN  IF signals = <<>> THEN <<"hold", 500>>
        ELSE IF Len(buys) > Len(sells) THEN <<"buy", Mean(buys)>>
        ELSE IF Len(sells) > Len(buys) THEN <<"sell", Mean(sells)>>
        ELSE <<"hold", 500>>

\* momentum_strategy_signal with the moderate buy at confidence 0.65.
momentum_strategy_signalModerate65(df, i) ==
    IF i + 1 < 20 THEN <<"hold", 500>>
    ELSE LET last == CloseAt(df, i)
             p10 == CloseAt(df, i - 9)
             p20 == CloseAt(df, i - 19)
         IN  IF 100 * last > 105 * p10 /\ 100 * last > 110 * p20 THEN <<"buy", 800>>
             ELSE IF 100 * last < 95 * p10 /\ 100 * last < 90 * p20 THEN <<"sell", 800>>
             ELSE IF 100 * last > 102 * p10 THEN <<"buy", 650>>
             ELSE IF 100 * last < 98 * p10 THEN <<"sell", 600>>
             ELSE <<"hold", 500>>

\* _momentum_strategy_signal on df.iloc[:i+1] (i + 1 bars): iloc[-1], iloc[-10]
\* and iloc[-20] are the positions i, i - 9 and i - 19.
\*   roc = (last / past - 1) * 100 > c  iff  100 * last > (100 + c) * past.
momentum_strategy_signal(df, i) ==
    IF i + 1 < 20 THEN <<"hold", 500>>
    ELSE LET last == CloseAt(df, i)
             p10 == CloseAt(df, i - 9)
             p20 == CloseAt(df, i - 19)
         IN  IF 100 * last > 105 * p10 /\ 100 * last > 110 * p20 THEN <<"buy", 800>>
             ELSE IF 100 * last < 95 * p10 /\ 100 * last < 90 * p20 THEN <<"sell", 800>>
             ELSE IF 100 * last > 102 * p10 THEN <<"buy", 600>>
             ELSE IF 100 * last < 98 * p10 THEN <<"sell", 600>>
             ELSE <<"hold", 500>>

\* _mean_reversion_signal on df.iloc[:i+1].
mean_reversion_signal(df, i) ==
    LET bb == calculate_bollinger_bands(df, BbPeriod, i)
        current_price == CloseAt(df, i)
    IN  IF ~({"bb_lower", "bb_upper"} \subseteq IndicatorColumns) THEN <<"hold", 500>>
        ELSE IF bb.nan THEN <<"hold", 500>>
        ELSE IF LeLower(current_price, bb) THEN <<"buy", 850>>
        ELSE IF GeUpper(current_price, bb) THEN <<"sell", 850>>
        ELSE IF LtMiddle(current_price, bb) THEN <<"buy", 550>>
        ELSE <<"hold", 500>>

\* get_signal with the technical strategy as the default of an unknown name.
get_signalDefaultTechnical(df, i, strategy) ==
    IF strategy = "momentum" THEN momentum_strategy_signal(df, i)
    ELSE IF strategy = "mean_reversion" THEN mean_reversion_signal(df, i)
    ELSE technical_strategy_signal(df, i)

\* get_signal called with the whole frame df instead of df.iloc[:i+1]: the
\* strategies read the last bars of the frame.
get_signalWholeFrame(df, i, strategy) ==
    LET last == FrameLen(df) - 1
    IN  IF strategy = "technical" THEN technical_strategy_signal(df, last)
        ELSE IF strategy = "momentum" THEN momentum_strategy_signal(df, last)
        ELSE IF strategy = "mean_reversion" THEN mean_reversion_signal(df, last)
        ELSE <<"hold", 500>>

\* _get_signal(df.iloc[:i+1], strategy)
get_signal(df, i, strategy) ==
    IF strategy = "technical" THEN technical_strategy_signal(df, i)
    ELSE IF strategy = "momentum" THEN momentum_strategy_signal(df, i)
    ELSE IF strategy = "mean_reversion" THEN mean_reversion_signal(df, i)
    ELSE <<"hold", 500>>

\* -------------------------------------------------------------- simulator
\* BacktestTrade(symbol, entry_date, entry_price, action, confidence,
\* technical_score) with the dataclass defaults for the other fields.
\* target_price and stop_loss are in 1/Unit tick, return_percent in 1/PctScale
\* percent, profit_loss in 1/PctScale of the currency unit.
BacktestTrade(symbol, date, price, confidence) ==
    [symbol |-> symbol, entry_date |-> date, entry_price |-> price,
     exit_date |-> None, exit_price |-> None, action |-> "buy",
     target_price |-> Num(0), stop_loss |-> Num(0),
     return_percent |-> 0, profit_loss |-> 0,
     hit_target |-> FALSE, hit_stop_loss |-> FALSE,
     confidence |-> confidence, technical_score |-> confidence]

\* The locals of _backtest_symbol before the loop.
SimStart ==
    [in_position |-> FALSE, current_trade |-> None, trades |-> <<>>, exit_reason |-> ""]

\* atr = df["atr_14"].iloc[i] if "atr_14" in df.columns else price * 0.02
EntryAtr(df, i) ==
    IF "atr_14" \in IndicatorColumns THEN calculate_atr(df, AtrPeriod, i)
    ELSE Num((Unit * CloseAt(df, i) * 2) \div 100)

\* EnterStep with the entry test "confidence >= 0.6".
EnterStepAtLeast(df, i, symbol, strategy, st) ==
    LET sig == get_signal(df, i, strategy)
        price == CloseAt(df, i)
        atr == EntryAtr(df, i)
        two_atr == IF atr.nan THEN NaN ELSE Num(atr.v * 2)
        one_half_atr == IF atr.nan THEN NaN ELSE Num((atr.v * 3) \div 2)
        opened == [BacktestTrade(symbol, DateAt(df, i), price, sig[2]) EXCEPT
                      !.target_price = Add(Num(Unit * price), two_atr),
                      !.stop_loss = Sub(Num(Unit * price), one_half_atr)]
    IN  IF sig[1] = "buy" /\ sig[2] >= EntryConfidence
        THEN [st EXCEPT !.current_trade = Some(opened), !.in_position = TRUE]
        ELSE st

\* The entry branch of the loop body (not in_position) at bar i.
EnterStep(df, i, symbol, strategy, st) ==
    LET sig == get_signal(df, i, strategy)
        price == CloseAt(df, i)
        atr == EntryAtr(df, i)
        two_atr == IF atr.nan THEN NaN ELSE Num(atr.v * 2)
        one_half_atr == IF atr.nan THEN NaN ELSE Num((atr.v * 3) \div 2)
        opened == [BacktestTrade(symbol, DateAt(df, i), price, sig[2]) EXCEPT
                      !.target_price = Add(Num(Unit * price), two_atr),
                      !.stop_loss = Sub(Num(Unit * price), one_half_atr)]
    IN  IF sig[1] = "buy" /\ sig[2] > EntryConfidence
        THEN [st EXCEPT !.current_trade = Some(opened), !.in_position = TRUE]
        ELSE st

\* holding_days = (date - entry_date).days if hasattr(date, 'day') else i
HoldingDays(df, i, trade) ==
    IF IsDatetimeIndex(df) THEN DateAt(df, i) - trade.entry_date ELSE i

\* return_percent = (price - entry_price) / entry_price * 100
ReturnPercent(price, entry_price) == ((price - entry_price) * 100 * PctScale) \div entry_price
\* profit_loss = position_size * return_percent / 100
ProfitLoss(position_size, return_percent) == (position_size * return_percent) \div 100

\* ExitStep with the sell signal tested first in the if/elif chain, so that
\* no flag is set on a bar with a sell signal.
ExitStepSignalFirst(df, i, position_size, strategy, st) ==
    LET t0 == CHOOSE t \in st.current_trade : TRUE
        price == CloseAt(df, i)
        sell == get_signal(df, i, strategy)[1] = "sell"
        at_target == ~sell /\ Ge(Num(Unit * price), t0.target_price)
        at_stop == ~sell /\ ~at_target /\ Le(Num(Unit * price), t0.stop_loss)
        t1 == IF at_target THEN [t0 EXCEPT !.hit_target = TRUE]
              ELSE IF at_stop THEN [t0 EXCEPT !.hit_stop_loss = TRUE]
              ELSE t0
        timeout == HoldingDays(df, i, t0) > MaxHoldingDays
        should_exit == at_target \/ at_stop \/ sell \/ timeout
        ret == ReturnPercent(price, t0.entry_price)
        closed == [t1 EXCEPT !.exit_date = Some(DateAt(df, i)),
                             !.exit_price = Some(price),
                             !.return_percent = ret,
                             !.profit_loss = ProfitLoss(position_size, ret)]
    IN  IF should_exit
        THEN [in_position |-> FALSE, current_trade |-> None,
              trades |-> Append(st.trades, closed), exit_reason |-> "exit"]
        ELSE [st EXCEPT !.current_trade = Some(t1), !.exit_reason = ""]

\* ExitStep with the target test "price > target_price".
ExitStepStrictTarget(df, i, position_size, strategy, st) ==
    LET t0 == CHOOSE t \in st.current_trade : TRUE
        price == CloseAt(df, i)
        at_target == Gt(Num(Unit * price), t0.target_price)
        at_stop == ~at_target /\ Le(Num(Unit * price), t0.stop_loss)
        t1 == IF at_target THEN [t0 EXCEPT !.hit_target = TRUE]
              ELSE IF at_stop THEN [t0 EXCEPT !.hit_stop_loss = TRUE]
              ELSE t0
        sell == get_signal(df, i, strategy)[1] = "sell"
        timeout == HoldingDays(df, i, t0) > MaxHoldingDays
        should_exit == at_target \/ at_stop \/ sell \/ timeout
        ret == ReturnPercent(price, t0.entry_price)
        closed == [t1 EXCEPT !.exit_date = Some(DateAt(df, i)),
                             !.exit_price = Some(price),
                             !.return_percent = ret,
                             !.profit_loss = ProfitLoss(position_size, ret)]
    IN  IF should_exit
        THEN [in_position |-> FALSE, current_trade |-> None,
              trades |-> Append(st.trades, closed), exit_reason |-> "exit"]
        ELSE [st EXCEPT !.current_trade = Some(t1), !.exit_reason = ""]

\* ExitStep with the stop tested by a plain "if", whatever the target test.
ExitStepBothFlags(df, i, position_size, strategy, st) ==
    LET t0 == CHOOSE t \in st.current_trade : TRUE
        price == CloseAt(df, i)
        at_target == Ge(Num(Unit * price), t0.target_price)
        at_stop == Le(Num(Unit * price), t0.stop_loss)
        t1 == [t0 EXCEPT !.hit_target = @ \/ at_target,
                         !.hit_stop_loss = @ \/ at_stop]
        sell == get_signal(df, i, strategy)[1] = "sell"
        timeout == HoldingDays(df, i, t0) > MaxHoldingDays
        should_exit == at_target \/ at_stop \/ sell \/ timeout
        exit_reason == IF timeout THEN "timeout"
                       ELSE IF sell THEN "signal"
                       ELSE IF at_target THEN "target"
                       ELSE IF at_stop THEN "stop_loss"
                       ELSE ""
        ret == ReturnPercent(price, t0.entry_price)
        closed == [t1 EXCEPT !.exit_date = Some(DateAt(df, i)),
                             !.exit_price = Some(price),
                             !.return_percent = ret,
                             !.profit_loss = ProfitLoss(position_size, ret)]
    IN  IF should_exit
        THEN [in_position |-> FALSE, current_trade |-> None,
              trades |-> Append(st.trades, closed), exit_reason |-> exit_reason]
        ELSE [st EXCEPT !.current_trade = Some(t1), !.exit_reason = exit_reason]

\* The exit branch of the loop body (in_position) at bar i.
ExitStep(df, i, position_size, strategy, st) ==
    LET t0 == CHOOSE t \in st.current_trade : TRUE
        price == CloseAt(df, i)
        at_target == Ge(Num(Unit * price), t0.target_price)
        at_stop == ~at_target /\ Le(Num(Unit * price), t0.stop_loss)
        t1 == IF at_target THEN [t0 EXCEPT !.hit_target = TRUE]
              ELSE IF at_stop THEN [t0 EXCEPT !.hit_stop_loss = TRUE]
              ELSE t0
        sell == get_signal(df, i, strategy)[1] = "sell"
        timeout == HoldingDays(df, i, t0) > MaxHoldingDays
        should_exit == at_target \/ at_stop \/ sell \/ timeout
        exit_reason == IF timeout THEN "timeout"
                       ELSE IF sell THEN "signal"
                       ELSE IF at_target THEN "target"
                       ELSE IF at_stop THEN "stop_loss"
                       ELSE ""
        ret == ReturnPercent(price, t0.entry_price)
        closed == [t1 EXCEPT !.exit_date = Some(DateAt(df, i)),
                             !.exit_price = Some(price),
                             !.return_percent = ret,
                             !.profit_loss = ProfitLoss(position_size, ret)]
    IN  IF should_exit
        THEN [in_position |-> FALSE, current_trade |-> None,
              trades |-> Append(st.trades, closed), exit_reason |-> exit_reason]
        ELSE [st EXCEPT !.current_trade = Some(t1), !.exit_reason = exit_reason]

\* BarStep with the entry branch run again on a bar that closed a trade.
BarStepReenter(df, i, symbol, position_size, strategy, st) ==
    IF ~st.in_position THEN EnterStep(df, i, symbol, strategy, st)
    ELSE LET after == ExitStep(df, i, position_size, strategy, st)
         IN  IF after.in_position THEN after
             ELSE EnterStep(df, i, symbol, strategy, after)

\* One iteration of "for i in range(50, len(df))".
BarStep(df, i, symbol, position_size, strategy, st) ==
    IF ~st.in_position THEN EnterStep(df, i, symbol, strategy, st)
    ELSE ExitStep(df, i, position_size, strategy, st)

\* _backtest_symbol from bar i on: the locals after the last bar.
RECURSIVE RunFrom(_, _, _, _, _, _)
RunFrom(df, i, symbol, position_size, strategy, st) ==
    IF i >= FrameLen(df) THEN st
    ELSE RunFrom(df, i + 1, symbol, position_size, strategy,
                 BarStep(df, i, symbol, position_size, strategy, st))

\* ---------------------------------------------------------------- metrics
\* BacktestResult(start_date, end_date, symbols_tested, initial_capital) with
\* the dataclass defaults for the other fields.
\* profit_factor is [inf, v]: float('inf') or the ratio v in 1/PctScale.
\* annualized_return_percent, a fractional power, is kept as the pair
\* [total, days] that determines it:
\*   ((1 + total / 100) ** (365 / days) - 1) * 100,
\* with [total |-> 0, days |-> 0] for 0.0 (the default, and the value of the
\* power when total = 0).
Annualized(total, days) ==
    IF days <= 0 \/ total = 0 THEN [total |-> 0, days |-> 0]
    ELSE [total |-> total, days |-> days]
\* sharpe_ratio, a quotient by a square root, is kept as the triple
\* [sum, n, var] that determines it, with sum the sum of the n returns and
\* var = n * sum(r^2) - sum(r)^2 = n * (n - 1) * stdev^2:
\*   (sum / n) / sqrt(var / (n * (n - 1))) * sqrt(252),
\* with [sum |-> 0, n |-> 0, var |-> 0] for 0.0 (the default, and the value of
\* the quotient when sum = 0).
Sharpe(sum, n, var) ==
    IF sum = 0 \/ n < 2 \/ var <= 0 THEN [sum |-> 0, n |-> 0, var |-> 0]
    ELSE [sum |-> sum, n |-> n, var |-> var]
BacktestResult(start_date, end_date, symbols, initial_capital) ==
    [start_date |-> start_date, end_date |-> end_date,
     symbols_tested |-> symbols, initial_capital |-> initial_capital,
     trades |-> <<>>,
     total_return_percent |-> 0, annualized_return_percent |-> Annualized(0, 0),
     win_rate |-> 0, average_return |-> 0,
     average_win |-> 0, average_loss |-> 0,
     max_drawdown_percent |-> 0, sharpe_ratio |-> Sharpe(0, 0, 0),
     profit_factor |-> [inf |-> FALSE, v |-> 0],
     total_trades |-> 0, winning_trades |-> 0, losing_trades |-> 0,
     best_trade |-> None, worst_trade |-> None,
     performance_by_symbol |-> <<>>]

\* is_profitable with "return_percent >= 0".
is_profitableOrEven(t) == t.return_percent >= 0

\* BacktestTrade.is_profitable
is_profitable(t) == t.return_percent > 0

Returns(trades) == [j \in 1..Len(trades) |-> trades[j].return_percent]
MeanOrZero(q) == IF q = <<>> THEN 0 ELSE Mean(q)

\* statistics.stdev(returns), Len(returns) > 1, as n * (n - 1) * stdev^2 =
\* n * sum(r^2) - sum(r)^2, which is 0 exactly when the deviation is 0.
VarianceTimes(returns) ==
    LET n == Len(returns)
        sq == [j \in 1..n |-> returns[j] * returns[j]]
    IN  n * SumSeq(sq) - SumSeq(returns) * SumSeq(returns)

\* SharpeRatio with the guard "len(returns) > 2".
SharpeRatioThreeTrades(returns) ==
    IF Len(returns) > 2 /\ VarianceTimes(returns) > 0
    THEN Sharpe(SumSeq(returns), Len(returns), VarianceTimes(returns))
    ELSE Sharpe(0, 0, 0)

\* The Sharpe ratio of _calculate_metrics: set only when there are at least
\* two returns and their deviation is positive.
SharpeRatio(returns) ==
    IF Len(returns) > 1 /\ VarianceTimes(returns) > 0
    THEN Sharpe(SumSeq(returns), Len(returns), VarianceTimes(returns))
    ELSE Sharpe(0, 0, 0)

\* The max-drawdown loop of _calculate_metrics over the running sums.
RECURSIVE MaxDrawdown(_, _, _, _, _)
MaxDrawdown(returns, j, total, peak, max_dd) ==
    IF j > Len(returns) THEN max_dd
    ELSE LET value == total + returns[j]
             pk == IF j = 1 \/ value > peak THEN value ELSE peak
             dd == pk - value
         IN  MaxDrawdown(returns, j + 1, value, pk, IF dd > max_dd THEN dd ELSE max_dd)

\* max(trades, key=...) and min(trades, key=...): the first extreme trade.
BestTrade(trades) ==
    LET j == CHOOSE a \in 1..Len(trades) :
                 /\ \A b \in 1..Len(trades) : trades[a].return_percent >= trades[b].return_percent
                 /\ \A b \in 1..(a - 1) : trades[b].return_percent < trades[a].return_percent
    IN  trades[j]
WorstTrade(trades) ==
    LET j == CHOOSE a \in 1..Len(trades) :
                 /\ \A b \in 1..Len(trades) : trades[a].return_percent <= trades[b].return_percent
                 /\ \A b \in 1..(a - 1) : trades[b].return_percent > trades[a].return_percent
    IN  trades[j]

\* PerformanceBySymbol with the list of a symbol replaced, not extended, by
\* each of its trades: only the last one is left.
PerformanceBySymbolLastTrade(trades) ==
    LET syms == {trades[j].symbol : j \in 1..Len(trades)}
        all(sym) == Returns(SelectSeq(trades, LAMBDA t : t.symbol = sym))
        rets(sym) == <<all(sym)[Len(all(sym))]>>
        wins(sym) == SelectSeq(rets(sym), LAMBDA r : r > 0)
    IN  [sym \in syms |->
            [trades |-> Len(rets(sym)),
             avg_return |-> Mean(rets(sym)),
             win_rate |-> (Len(wins(sym)) * 100 * PctScale) \div Len(rets(sym)),
             total_return |-> SumSeq(rets(sym))]]

\* The per-symbol dictionary: a function over the symbols that have a trade.
PerformanceBySymbol(trades) ==
    LET syms == {trades[j].symbol : j \in 1..Len(trades)}
        rets(sym) == Returns(SelectSeq(trades, LAMBDA t : t.symbol = sym))
        wins(sym) == SelectSeq(rets(sym), LAMBDA r : r > 0)
    IN  [sym \in syms |->
            [trades |-> Len(rets(sym)),
             avg_return |-> Mean(rets(sym)),
             win_rate |-> (Len(wins(sym)) * 100 * PctScale) \div Len(rets(sym)),
             total_return |-> SumSeq(rets(sym))]]

\* ProfitFactor with 0 in place of float('inf') when nothing was lost.
ProfitFactorZero(trades) ==
    LET winning == SelectSeq(trades, LAMBDA t : t.return_percent > 0)
        losing == SelectSeq(trades, LAMBDA t : ~(t.return_percent > 0))
        gross_profit == SumSeq([j \in 1..Len(winning) |-> winning[j].profit_loss])
        gross_loss == Abs(SumSeq([j \in 1..Len(losing) |-> losing[j].profit_loss]))
    IN  IF gross_loss > 0
        THEN [inf |-> FALSE, v |-> (gross_profit * PctScale) \div gross_loss]
        ELSE [inf |-> FALSE, v |-> 0]

\* The profit factor of _calculate_metrics.
ProfitFactor(trades) ==
    LET winning == SelectSeq(trades, is_profitable)
        losing == SelectSeq(trades, LAMBDA t : ~is_profitable(t))
        gross_profit == SumSeq([j \in 1..Len(winning) |-> winning[j].profit_loss])
        gross_loss == Abs(SumSeq([j \in 1..Len(losing) |-> losing[j].profit_loss]))
    IN  IF gross_loss > 0
        THEN [inf |-> FALSE, v |-> (gross_profit * PctScale) \div gross_loss]
        ELSE [inf |-> TRUE, v |-> 0]

\* _calculate_metrics(result)
calculate_metrics(result) ==
    LET trades == result.trades
        n == Len(trades)
        returns == Returns(trades)
        winning == SelectSeq(trades, is_profitable)
        losing == SelectSeq(trades, LAMBDA t : ~is_profitable(t))
        average_return == Mean(returns)
        days == IF result.start_date = None \/ result.end_date = None THEN 0
                ELSE (CHOOSE d \in result.end_date : TRUE) - (CHOOSE d \in result.start_date : TRUE)
    IN  IF trades = <<>> THEN result
        ELSE [result EXCEPT
                !.total_trades = n,
                !.winning_trades = Len(winning),
                !.losing_trades = n - Len(winning),
                !.win_rate = (Len(winning) * 100 * PctScale) \div n,
                !.average_return = average_return,
                !.average_win = MeanOrZero(Returns(winning)),
                !.average_loss = MeanOrZero(Returns(losing)),
                !.total_return_percent = SumSeq(returns),
                !.annualized_return_percent = Annualized(SumSeq(returns), days),
                !.profit_factor = ProfitFactor(trades),
                !.sharpe_ratio = SharpeRatio(returns),
                !.max_drawdown_percent = MaxDrawdown(returns, 1, 0, 0, 0),
                !.best_trade = Some(BestTrade(trades)),
                !.worst_trade = Some(WorstTrade(trades)),
                !.performance_by_symbol = PerformanceBySymbol(trades)]

\* ----------------------------------------------------- technical analyzer
\* Signal: the values of the enum.
Signals == {"strong_buy", "buy", "hold", "sell", "strong_sell"}
\* TechnicalSignal(indicator, value, signal, strength, description): the
\* fields the analyzer reads back, strength in hundredths.
TechnicalSignal(indicator, signal, strength) ==
    [indicator |-> indicator, signal |-> signal, strength |-> strength]

\* A score or a ratio is the fraction num/den, den > 0.
RECURSIVE Gcd(_, _)
Gcd(a, b) == IF b = 0 THEN a ELSE Gcd(b, a % b)
Frac(num, den) ==
    LET g == Gcd(Abs(num), den)
    IN  [num |-> num \div g, den |-> den \div g]

\* TechnicalAnalysisResult(symbol, timestamp) with the dataclass defaults;
\* confidence in thousandths, prices in ticks.
TechnicalAnalysisResult(symbol, timestamp) ==
    [symbol |-> symbol, timestamp |-> timestamp,
     current_price |-> 0,
     price_change_1d |-> Frac(0, 1), price_change_5d |-> Frac(0, 1),
     price_change_1m |-> Frac(0, 1),
     signals |-> <<>>,
     trend_score |-> Frac(50, 1), momentum_score |-> Frac(50, 1),
     volatility_score |-> Frac(50, 1), volume_score |-> Frac(50, 1),
     overall_score |-> Frac(50, 1), overall_signal |-> "hold",
     confidence |-> Frac(500, 1),
     support_levels |-> <<>>, resistance_levels |-> <<>>,
     pivot_point |-> Frac(0, 1),
     patterns_detected |-> <<>>]

\* The position of the last bar, iloc[-1].
Last(df) == FrameLen(df) - 1

\* _analyze_trend(df, current_price): the SMA 20, SMA 50, SMA 200 and MACD
\* signals, read on the last row.
SmaShortSignal(df, current_price) ==
    LET sma_20 == calculate_sma(df, BbPeriod, Last(df))
    IN  IF sma_20.nan THEN <<>>
        ELSE IF 100 * Unit * current_price > 102 * sma_20.v
             THEN <<TechnicalSignal("SMA 20", "buy", 70)>>
        ELSE IF 100 * Unit * current_price < 98 * sma_20.v
             THEN <<TechnicalSignal("SMA 20", "sell", 70)>>
        ELSE <<TechnicalSignal("SMA 20", "hold", 50)>>
SmaMidSignal(df, current_price) ==
    LET sma_50 == calculate_sma(df, WarmUp, Last(df))
    IN  IF sma_50.nan THEN <<>>
        ELSE IF Unit * current_price > sma_50.v THEN <<TechnicalSignal("SMA 50", "buy", 75)>>
        ELSE <<TechnicalSignal("SMA 50", "sell", 75)>>
SmaLongSignal(df, current_price) ==
    LET sma_200 == calculate_sma(df, SmaLong, Last(df))
    IN  IF sma_200.nan THEN <<>>
        ELSE IF Unit * current_price > sma_200.v
             THEN <<TechnicalSignal("SMA 200", "strong_buy", 85)>>
        ELSE <<TechnicalSignal("SMA 200", "strong_sell", 85)>>
MacdSignalOf(df) ==
    LET now == calculate_macd(df, Last(df))
        prev == calculate_macd(df, Last(df) - 1)
    IN  IF FrameLen(df) < 2 THEN <<>>
        ELSE IF Le(prev.macd, prev.signal) /\ Gt(now.macd, now.signal)
             THEN <<TechnicalSignal("MACD", "strong_buy", 90)>>
        ELSE IF Ge(prev.macd, prev.signal) /\ Lt(now.macd, now.signal)
             THEN <<TechnicalSignal("MACD", "strong_sell", 90)>>
        ELSE IF Gt(now.macd, now.signal) THEN <<TechnicalSignal("MACD", "buy", 70)>>
        ELSE <<TechnicalSignal("MACD", "sell", 70)>>
analyze_trend(df, current_price) ==
    SmaShortSignal(df, current_price) \o SmaMidSignal(df, current_price)
        \o SmaLongSignal(df, current_price) \o MacdSignalOf(df)

\* RsiSignal with the oversold threshold at 40.
RsiSignalOversold40(df) ==
    LET rsi == calculate_rsi(df, RsiPeriod, Last(df))
    IN  IF rsi.nan THEN <<>>
        ELSE IF RsiLt(rsi, 40) THEN <<TechnicalSignal("RSI", "strong_buy", 85)>>
        ELSE IF RsiGt(rsi, 70) THEN <<TechnicalSignal("RSI", "strong_sell", 85)>>
        ELSE IF RsiGt(rsi, 60) THEN <<TechnicalSignal("RSI", "sell", 65)>>
        ELSE <<TechnicalSignal("RSI", "hold", 50)>>

\* _analyze_momentum(df): the RSI signal
RsiSignal(df) ==
    LET rsi == calculate_rsi(df, RsiPeriod, Last(df))
    IN  IF rsi.nan THEN <<>>
        ELSE IF RsiLt(rsi, 30) THEN <<TechnicalSignal("RSI", "strong_buy", 85)>>
        ELSE IF RsiLt(rsi, 40) THEN <<TechnicalSignal("RSI", "buy", 65)>>
        ELSE IF RsiGt(rsi, 70) THEN <<TechnicalSignal("RSI", "strong_sell", 85)>>
        ELSE IF RsiGt(rsi, 60) THEN <<TechnicalSignal("RSI", "sell", 65)>>
        ELSE <<TechnicalSignal("RSI", "hold", 50)>>
\* and the Stochastic signal; an infinite %K (high = low on the whole window,
\* close elsewhere) is below 20 or above 80 by its sign.
StochasticSignal(df) ==
    LET stoch_k == calculate_stochastic(df, StochPeriod, Last(df))
        below == IF stoch_k.inf THEN Lt(Num(CloseAt(df, Last(df))), LowAt(df, Last(df)))
                 ELSE stoch_k.num < 20 * stoch_k.den
        above == IF stoch_k.inf THEN ~below ELSE stoch_k.num > 80 * stoch_k.den
    IN  IF stoch_k.nan THEN <<>>
        ELSE IF below THEN <<TechnicalSignal("Stochastic", "strong_buy", 80)>>
        ELSE IF above THEN <<TechnicalSignal("Stochastic", "strong_sell", 80)>>
        ELSE IF StochAboveD(df, StochPeriod, Last(df))
             THEN <<TechnicalSignal("Stochastic", "buy", 60)>>
        ELSE <<TechnicalSignal("Stochastic", "sell", 60)>>
analyze_momentum(df) == RsiSignal(df) \o StochasticSignal(df)

\* _analyze_volatility(df, current_price): the Bollinger Bands and ATR signals.
BollingerSignal(df, current_price) ==
    LET bb == calculate_bollinger_bands(df, BbPeriod, Last(df))
    IN  IF bb.nan THEN <<>>
        ELSE IF LeLower(current_price, bb)
             THEN <<TechnicalSignal("Bollinger Bands", "strong_buy", 85)>>
        ELSE IF GeUpper(current_price, bb)
             THEN <<TechnicalSignal("Bollinger Bands", "strong_sell", 85)>>
        ELSE IF LtMiddle(current_price, bb)
             THEN <<TechnicalSignal("Bollinger Bands", "buy", 55)>>
        ELSE <<TechnicalSignal("Bollinger Bands", "sell", 55)>>
\* atr_percent = atr / current_price * 100 > 5
AtrSignal(df, current_price) ==
    LET atr == calculate_atr(df, AtrPeriod, Last(df))
    IN  IF atr.nan THEN <<>>
        ELSE IF 100 * atr.v > 5 * Unit * current_price THEN <<TechnicalSignal("ATR", "hold", 40)>>
        ELSE <<TechnicalSignal("ATR", "hold", 60)>>
analyze_volatility(df, current_price) ==
    BollingerSignal(df, current_price) \o AtrSignal(df, current_price)

\* _analyze_volume(df): the Volume signal, from the last volume against the
\* mean of the last 20 (current > 1.5 * avg iff 40 * current > 3 * sum), and
\* the OBV signal, obv.iloc[-1] - obv.iloc[-5].
VolumeSignal(df) ==
    LET current_vol == VolumeAt(df, Last(df))
        sum == SumOver([k \in (Last(df) - 19)..Last(df) |-> VolumeAt(df, k)],
                       Last(df) - 19, Last(df))
    IN  IF ~HasVolume(df) \/ FrameLen(df) < 20 THEN <<>>
        ELSE IF 40 * current_vol > 3 * sum
             THEN IF CloseAt(df, Last(df)) > CloseAt(df, Last(df) - 1)
                  THEN <<TechnicalSignal("Volume", "strong_buy", 75)>>
                  ELSE <<TechnicalSignal("Volume", "strong_sell", 75)>>
        ELSE IF 40 * current_vol < sum THEN <<TechnicalSignal("Volume", "hold", 40)>>
        ELSE <<>>
ObvSignal(df) ==
    IF ~HasVolume(df) \/ FrameLen(df) < 5 THEN <<>>
    ELSE IF ObvChange(df, Last(df) - 4, Last(df)) > 0 THEN <<TechnicalSignal("OBV", "buy", 60)>>
    ELSE <<TechnicalSignal("OBV", "sell", 60)>>
analyze_volume(df) == VolumeSignal(df) \o ObvSignal(df)

\* signal_values of _calculate_category_score
signal_values(signal) ==
    CASE signal = "strong_buy" -> 100
      [] signal = "buy" -> 75
      [] signal = "hold" -> 50
      [] signal = "sell" -> 25
      [] signal = "strong_sell" -> 0

\* calculate_category_score without the weights: the plain mean of the values.
calculate_category_scoreUnweighted(signals) ==
    IF signals = <<>> THEN Frac(50, 1)
    ELSE Frac(SumSeq([j \in 1..Len(signals) |-> signal_values(signals[j].signal)]), Len(signals))

\* _calculate_category_score(signals)
calculate_category_score(signals) ==
    LET weighted_sum == SumSeq([j \in 1..Len(signals) |->
                                   signal_values(signals[j].signal) * signals[j].strength])
        total_weight == SumSeq([j \in 1..Len(signals) |-> signals[j].strength])
    IN  IF signals = <<>> THEN Frac(50, 1)
        ELSE IF total_weight > 0 THEN Frac(weighted_sum, total_weight)
        ELSE Frac(50, 1)

\* analyze, lines 160-166: the weighted average of the category scores.
OverallScore(trend, momentum, volatility, volume) ==
    LET lcm(a, b) == (a \div Gcd(a, b)) * b
        den == lcm(lcm(trend.den, momentum.den), lcm(volatility.den, volume.den))
    IN  Frac(35 * trend.num * (den \div trend.den)
                 + 30 * momentum.num * (den \div momentum.den)
                 + 20 * volatility.num * (den \div volatility.den)
                 + 15 * volume.num * (den \div volume.den),
             100 * den)

\* _score_to_signal(score)
score_to_signal(score) ==
    IF score.num >= 80 * score.den THEN "strong_buy"
    ELSE IF score.num >= 60 * score.den THEN "buy"
    ELSE IF score.num >= 40 * score.den THEN "hold"
    ELSE IF score.num >= 20 * score.den THEN "sell"
    ELSE "strong_sell"

\* calculate_confidence with the agreement counted on the buy side only.
calculate_confidenceBuyOnly(signals) ==
    LET buy_signals == Len(SelectSeq(signals, LAMBDA s : s.signal \in {"buy", "strong_buy"}))
        total == Len(signals)
    IN  IF signals = <<>> THEN Frac(500, 1)
        ELSE IF 400 * total + 500 * buy_signals > 950 * total THEN Frac(950, 1)
        ELSE Frac(400 * total + 500 * buy_signals, total)

\* _calculate_confidence(signals), in thousandths:
\* min(0.95, 0.4 + max_agreement / total * 0.5)
calculate_confidence(signals) ==
    LET buy_signals == Len(SelectSeq(signals, LAMBDA s : s.signal \in {"buy", "strong_buy"}))
        sell_signals == Len(SelectSeq(signals, LAMBDA s : s.signal \in {"sell", "strong_sell"}))
        total == Len(signals)
        max_agreement == Max2(buy_signals, sell_signals)
    IN  IF signals = <<>> THEN Frac(500, 1)
        ELSE IF 400 * total + 500 * max_agreement > 950 * total THEN Frac(950, 1)
        ELSE Frac(400 * total + 500 * max_agreement, total)

\* Series.nsmallest(m) and Series.nlargest(m) on a set S of pairs
\* <<value, position>>: the m smallest (largest) values in that order, the
\* first position winning a tie.
RECURSIVE nsmallest(_, _)
nsmallest(S, m) ==
    IF m = 0 \/ S = {} THEN <<>>
    ELSE LET a == CHOOSE a \in S : \A b \in S : a[1] < b[1] \/ (a[1] = b[1] /\ a[2] <= b[2])
         IN  <<a[1]>> \o nsmallest(S \ {a}, m - 1)
RECURSIVE nlargest(_, _)
nlargest(S, m) ==
    IF m = 0 \/ S = {} THEN <<>>
    ELSE LET a == CHOOSE a \in S : \A b \in S : a[1] > b[1] \/ (a[1] = b[1] /\ a[2] <= b[2])
         IN  <<a[1]>> \o nlargest(S \ {a}, m - 1)
RECURSIVE Reverse(_)
Reverse(q) == IF q = <<>> THEN <<>> ELSE Append(Reverse(Tail(q)), Head(q))
FirstN(q, n) == SubSeq(q, 1, IF Len(q) < n THEN Len(q) ELSE n)

\* _find_support_resistance(df, num_levels): the 2 * num_levels largest highs
\* and smallest lows of the last 50 bars, filtered by the current price; the
\* resistances are sorted ascending and the supports descending
\* (sorted(..., reverse=True)) before the first num_levels are kept.
find_support_resistance(df, num_levels) ==
    LET P == (IF FrameLen(df) > LevelBars THEN FrameLen(df) - LevelBars ELSE 0)..Last(df)
        current_price == CloseAt(df, Last(df))
        recent_highs == nlargest({<<HighAt(df, k).v, k>> : k \in P}, num_levels * 2)
        recent_lows == nsmallest({<<LowAt(df, k).v, k>> : k \in P}, num_levels * 2)
        above == SelectSeq(recent_highs, LAMBDA h : h > current_price)
        below == SelectSeq(recent_lows, LAMBDA l : l < current_price)
    IN  [support |-> FirstN(Reverse(below), num_levels),
         resistance |-> FirstN(Reverse(above), num_levels)]

\* _detect_patterns(df), on prices = the last 20 closes (0-based positions
\* 0..m-1 of prices are the positions first..first+m-1 of df).
detect_patterns(df) ==
    LET m == IF FrameLen(df) < 20 THEN FrameLen(df) ELSE 20
        first == FrameLen(df) - m
        prices == [j \in 0..(m - 1) |-> CloseAt(df, first + j)]
        MaxOf(S) == CHOOSE x \in S : \A y \in S : x >= y
        MinOf(S) == CHOOSE x \in S : \A y \in S : x <= y
        groups == {j \in 0..(m - 4) : j % 3 = 0}
        high_of(j) == MaxOf({prices[k] : k \in j..(IF j + 2 < m THEN j + 2 ELSE m - 1)})
        low_of(j) == MinOf({prices[k] : k \in j..(IF j + 2 < m THEN j + 2 ELSE m - 1)})
        last10 == {prices[k] : k \in (m - 10)..(m - 1)}
        uptrend == \A j \in (m - 5)..(m - 2) : prices[j] <= prices[j + 1]
        downtrend == \A j \in (m - 5)..(m - 2) : prices[j] >= prices[j + 1]
        higher == /\ Cardinality(groups) >= 3
                  /\ \A j \in groups : j + 3 \in groups => high_of(j) < high_of(j + 3)
        lower == /\ Cardinality(groups) >= 3
                 /\ \A j \in groups : j + 3 \in groups => low_of(j) > low_of(j + 3)
        ranging == m >= 10 /\ 100 * (MaxOf(last10) - MinOf(last10)) < 3 * prices[m - 1]
    IN  IF FrameLen(df) < 10 THEN <<>>
        ELSE (IF uptrend THEN <<"Short-term uptrend">> ELSE <<>>)
             \o (IF downtrend THEN <<"Short-term downtrend">> ELSE <<>>)
             \o (IF higher THEN <<"Higher highs pattern">> ELSE <<>>)
             \o (IF lower THEN <<"Lower lows pattern">> ELSE <<>>)
             \o (IF ranging THEN <<"Consolidation/Range-bound">> ELSE <<>>)

\* InsufficientData that lets every non-empty frame through.
InsufficientDataEmptyOnly(df) == FrameLen(df) = 0

\* analyze, line 121: df.empty or len(df) < 20
InsufficientData(df) == FrameLen(df) = 0 \/ FrameLen(df) < MinObservations

\* ((last / past) - 1) * 100, the change from iloc[-back] to iloc[-1].
PriceChange(df, back) ==
    IF FrameLen(df) >= back
    THEN Frac(100 * (CloseAt(df, Last(df)) - CloseAt(df, FrameLen(df) - back)),
              CloseAt(df, FrameLen(df) - back))
    ELSE Frac(0, 1)

\* analyze, lines 154-172: the scores, the overall signal and the confidence
\* from the signals of the four categories.
Scored(result, trend_signals, momentum_signals, volatility_signals, volume_signals) ==
    LET signals == trend_signals \o momentum_signals \o volatility_signals \o volume_signals
        trend == calculate_category_score(trend_signals)
        momentum == calculate_category_score(momentum_signals)
        volatility == calculate_category_score(volatility_signals)
        volume == calculate_category_score(volume_signals)
        overall == OverallScore(trend, momentum, volatility, volume)
    IN  [result EXCEPT !.signals = signals,
                       !.trend_score = trend, !.momentum_score = momentum,
                       !.volatility_score = volatility, !.volume_score = volume,
                       !.overall_score = overall,
                       !.overall_signal = score_to_signal(overall),
                       !.confidence = calculate_confidence(signals)]

\* TechnicalAnalyzer.analyze(df, symbol)
analyze(df, symbol) ==
    IF InsufficientData(df) THEN TechnicalAnalysisResult(symbol, "")
    ELSE LET current_price == CloseAt(df, Last(df))
             levels == find_support_resistance(df, NumLevels)
             priced == [TechnicalAnalysisResult(symbol, DateAt(df, Last(df))) EXCEPT
                           !.current_price = current_price,
                           !.price_change_1d = PriceChange(df, 2),
                           !.price_change_5d = PriceChange(df, 5),
                           !.price_change_1m = PriceChange(df, 20)]
             scored == Scored(priced, analyze_trend(df, current_price), analyze_momentum(df),
                              analyze_volatility(df, current_price), analyze_volume(df))
         IN  [scored EXCEPT
                 !.support_levels = levels.support,
                 !.resistance_levels = levels.resistance,
                 !.pivot_point = Frac(HighAt(df, Last(df)).v + LowAt(df, Last(df)).v
                                          + CloseAt(df, Last(df)), 3),
                 !.patterns_detected = detect_patterns(df)]

\* ------------------------------------------------------------ run_backtest
VARIABLES
    pc,            \* "call", "symbol" (top of the for loop), "loop" (inside
                   \* _backtest_symbol's loop), "done" (run_backtest returned)
    args,          \* the arguments of the call of run_backtest
    provided,      \* what get_historical_data returned, one entry per symbol so far
    result,        \* run_backtest: result
    all_trades,    \* run_backtest: all_trades
    df,            \* _backtest_symbol: df of the symbol being simulated
    i,             \* _backtest_symbol: the loop index
    sim            \* _backtest_symbol: in_position, current_trade, trades, exit_reason

vars == <<pc, args, provided, result, all_trades, df, i, sim>>

\* The calls checked.  A run over one symbol with an end date is checked on
\* every history of GoodFrames and with every strategy name; a run without
\* end date, or over no or two symbols, on the rising flat daily histories.
Strategies == {"technical", "momentum", "mean_reversion", "swing"}
EndDate == Bars.days * (WarmUp + MaxTail) + 1
Calls ==
    [symbols : {<<"AAA">>}, strategy : Strategies,
     start_date : {0}, end_date : {Some(EndDate)},
     initial_capital : {100000}, position_size_percent : {10}]
    \cup
    [symbols : {<<>>, <<"AAA", "BBB">>}, strategy : {"momentum"},
     start_date : {0}, end_date : {Some(EndDate)},
     initial_capital : {100000}, position_size_percent : {10}]
    \cup
    [symbols : {<<"AAA">>}, strategy : {"momentum"},
     start_date : {0}, end_date : {None},
     initial_capital : {100000}, position_size_percent : {10}]

PlainFrames ==
    {f \in GoodFrames : /\ f.shape = "flat" /\ f.cal = "daily"
                        /\ \A j \in 1..Len(f.tail) : f.tail[j] > Bars.raised}
\* What the provider may return for a symbol of the call: None, a frame that
\* is too short, a frame without High/Low columns, or a full history.
ProviderFrames(a) ==
    {ShortFrame, NoHighFrame}
        \cup (IF Len(a.symbols) = 1 /\ a.end_date # None THEN GoodFrames ELSE PlainFrames)

\* position_size = initial_capital * position_size_percent / 100
PositionSize(a) == (a.initial_capital * a.position_size_percent) \div 100

\* Index (1-based) of the symbol the for loop of run_backtest is at.
SymbolIndex == Len(provided)

Init ==
    /\ pc = "call"
    /\ args \in Calls
    /\ provided = <<>>
    /\ result = BacktestResult(None, None, <<>>, 100000)
    /\ all_trades = <<>>
    /\ df = ShortFrame
    /\ i = 0
    /\ sim = SimStart

\* ResultAtCall with end_date = datetime.now() whatever the argument.
ResultAtCallNow(a, clock) ==
    BacktestResult(Some(a.start_date), Some(clock), a.symbols, a.initial_capital)

\* run_backtest, lines 183-192: end_date = end_date or datetime.now().
ResultAtCall(a, clock) ==
    BacktestResult(Some(a.start_date),
                   IF a.end_date = None THEN Some(clock) ELSE a.end_date,
                   a.symbols, a.initial_capital)
\* What datetime.now() may return at the call.
Clock == {0, 1}
Call ==
    /\ pc = "call"
    /\ \E clock \in Clock : result' = ResultAtCall(args, clock)
    /\ all_trades' = <<>>
    /\ pc' = "symbol"
    /\ UNCHANGED <<args, provided, df, i, sim>>

\* _backtest_symbol: get_historical_data returned None (it catches its own
\* exceptions and maps an empty frame to None): return [].
FetchNone ==
    /\ pc = "symbol" /\ Len(provided) < Len(args.symbols)
    /\ provided' = Append(provided, None)
    /\ all_trades' = all_trades \o <<>>
    /\ UNCHANGED <<pc, args, result, df, i, sim>>

\* _backtest_symbol: len(df) < 50: return [].
FetchShort ==
    /\ pc = "symbol" /\ Len(provided) < Len(args.symbols)
    /\ \E f \in ProviderFrames(args) :
          /\ FrameLen(f) < WarmUp
          /\ provided' = Append(provided, Some(f))
    /\ all_trades' = all_trades \o <<>>
    /\ UNCHANGED <<pc, args, result, df, i, sim>>

\* FetchRaises without the try/except of run_backtest: the exception ends
\* the run.
FetchRaisesUncaught ==
    /\ pc = "symbol" /\ Len(provided) < Len(args.symbols)
    /\ \E f \in ProviderFrames(args) :
          /\ FrameLen(f) >= WarmUp /\ ~f.ohlc
          /\ provided' = Append(provided, Some(f))
    /\ pc' = "done"
    /\ UNCHANGED <<args, result, all_trades, df, i, sim>>

\* _backtest_symbol: calculate_all_indicators raises KeyError on a frame
\* without High/Low columns; run_backtest catches it and goes on.
FetchRaises ==
    /\ pc = "symbol" /\ Len(provided) < Len(args.symbols)
    /\ \E f \in ProviderFrames(args) :
          /\ FrameLen(f) >= WarmUp /\ ~f.ohlc
          /\ provided' = Append(provided, Some(f))
    /\ UNCHANGED <<pc, args, result, all_trades, df, i, sim>>

\* FetchOk with trades, in_position and current_trade kept on the instance,
\* shared by the symbols of the run, instead of being locals.
FetchOkSharedState ==
    /\ pc = "symbol" /\ Len(provided) < Len(args.symbols)
    /\ \E f \in ProviderFrames(args) :
          /\ FrameLen(f) >= WarmUp /\ f.ohlc
          /\ provided' = Append(provided, Some(f))
          /\ df' = f
    /\ i' = WarmUp
    /\ pc' = "loop"
    /\ UNCHANGED <<args, result, all_trades, sim>>

\* _backtest_symbol: the frame is long enough, the indicators are computed,
\* the loop starts at bar 50.
FetchOk ==
    /\ pc = "symbol" /\ Len(provided) < Len(args.symbols)
    /\ \E f \in ProviderFrames(args) :
          /\ FrameLen(f) >= WarmUp /\ f.ohlc
          /\ provided' = Append(provided, Some(f))
          /\ df' = f
    /\ i' = WarmUp
    /\ sim' = SimStart
    /\ pc' = "loop"
    /\ UNCHANGED <<args, result, all_trades>>

\* One iteration of the loop of _backtest_symbol.
SimBar ==
    /\ pc = "loop" /\ i < FrameLen(df)
    /\ sim' = BarStep(df, i, args.symbols[SymbolIndex], PositionSize(args), args.strategy, sim)
    /\ i' = i + 1
    /\ UNCHANGED <<pc, args, provided, result, all_trades, df>>

\* ReturnTrades with the position left open after the last bar appended too.
ReturnTradesWithOpen ==
    /\ pc = "loop" /\ i >= FrameLen(df)
    /\ all_trades' = all_trades \o sim.trades
                        \o (IF sim.in_position THEN <<CHOOSE t \in sim.current_trade : TRUE>> ELSE <<>>)
    /\ pc' = "symbol"
    /\ UNCHANGED <<args, provided, result, df, i, sim>>

\* _backtest_symbol returns trades; run_backtest extends all_trades.
ReturnTrades ==
    /\ pc = "loop" /\ i >= FrameLen(df)
    /\ all_trades' = all_trades \o sim.trades
    /\ pc' = "symbol"
    /\ UNCHANGED <<args, provided, result, df, i, sim>>

\* run_backtest after the for loop: no trade at all, the result is returned
\* as constructed.
ReturnEmpty ==
    /\ pc = "symbol" /\ Len(provided) = Len(args.symbols)
    /\ all_trades = <<>>
    /\ pc' = "done"
    /\ UNCHANGED <<args, provided, result, all_trades, df, i, sim>>

\* run_backtest after the for loop: result.trades = all_trades and
\* _calculate_metrics(result).
ReturnResult ==
    /\ pc = "symbol" /\ Len(provided) = Len(args.symbols)
    /\ all_trades # <<>>
    /\ result' = calculate_metrics([result EXCEPT !.trades = all_trades])
    /\ pc' = "done"
    /\ UNCHANGED <<args, provided, all_trades, df, i, sim>>

Next ==
    \/ Call
    \/ FetchNone
    \/ FetchShort
    \/ FetchRaises
    \/ FetchOk
    \/ SimBar
    \/ ReturnTrades
    \/ ReturnEmpty
    \/ ReturnResult

Spec == Init /\ [][Next]_vars

\* ------------------------------------------- the indicator library alone
\* calculate_all_indicators called on a frame, outside of any backtest: pc is
\* "indicators" at the call and "indicators_done" at the return, df is the
\* argument and result the frame returned, one row of indicator values per
\* position of df.  The variables of run_backtest stay idle.
\* The frames it is called on: 1 to BbPeriod + MaxTail bars, the first n at
\* the base close, without intraday range ("flat") or with one ("spike", too
\* short here to hold the spike).
IndicatorFrames ==
    {f \in [shape : {"flat", "spike"}, cal : {"daily"}, n : {0, RsiPeriod - 1, BbPeriod - 1},
             tail : SeqsUpTo(TailCloses, MaxTail), ohlc : {TRUE}] : FrameLen(f) > 0}

\* The values calculate_all_indicators writes at position p.
IndicatorRow(f, p) ==
    [sma_20 |-> calculate_sma(f, BbPeriod, p),
     sma_50 |-> calculate_sma(f, WarmUp, p),
     rsi_14 |-> calculate_rsi(f, RsiPeriod, p),
     macd |-> calculate_macd(f, p),
     bb |-> calculate_bollinger_bands(f, BbPeriod, p),
     atr_14 |-> calculate_atr(f, AtrPeriod, p),
     stoch_k |-> calculate_stochastic(f, StochPeriod, p)]

IndicatorInit ==
    /\ pc = "indicators"
    /\ df \in IndicatorFrames
    /\ result = <<>>
    /\ args \in {a \in Calls : a.symbols = <<>>}
    /\ provided = <<>>
    /\ all_trades = <<>>
    /\ i = 0
    /\ sim = SimStart

\* calculate_all_indicators(df): result = df.copy() with the indicator columns.
CalculateAllIndicators ==
    /\ pc = "indicators"
    /\ result' = [p \in 0..(FrameLen(df) - 1) |-> IndicatorRow(df, p)]
    /\ pc' = "indicators_done"
    /\ UNCHANGED <<args, provided, all_trades, df, i, sim>>

IndicatorNext == CalculateAllIndicators

IndicatorSpec == IndicatorInit /\ [][IndicatorNext]_vars

\* ----------------------------------------------- the analyzer alone
\* TechnicalAnalyzer.analyze called on a frame: pc is "analyze" at the call
\* and "analyzed" at the return, df is the argument and result the
\* TechnicalAnalysisResult returned.  The frames: empty, too short (up to
\* 19 bars), or of 20 bars and more, flat, with a spike or falling, with or
\* without a Volume column.
AnalyzerFrames ==
    [shape : {"flat", "spike", "falling"}, cal : {"daily"},
     n : {0, MinObservations - 1, WarmUp},
     tail : SeqsUpTo(TailCloses, MaxTail), ohlc : {TRUE},
     vol : {"none", "steady", "surge", "dry"}]

AnalyzerInit ==
    /\ pc = "analyze"
    /\ df \in AnalyzerFrames
    /\ result = <<>>
    /\ args \in {a \in Calls : a.symbols = <<>>}
    /\ provided = <<>>
    /\ all_trades = <<>>
    /\ i = 0
    /\ sim = SimStart

Analyze ==
    /\ pc = "analyze"
    /\ result' = analyze(df, "AAA")
    /\ pc' = "analyzed"
    /\ UNCHANGED <<args, provided, all_trades, df, i, sim>>

AnalyzerNext == Analyze

AnalyzerSpec == AnalyzerInit /\ [][AnalyzerNext]_vars

\* The scoring of analyze (lines 154-172) on given signals: args holds the
\* signals of the four categories, result the TechnicalAnalysisResult they
\* are written to; pc is "score" before and "scored" after.  The signals are
\* drawn from some of those the analyzers emit.
SignalPool ==
    {TechnicalSignal("MACD", "strong_buy", 90), TechnicalSignal("SMA 20", "buy", 70),
     TechnicalSignal("ATR", "hold", 40), TechnicalSignal("Bollinger Bands", "sell", 55),
     TechnicalSignal("SMA 200", "strong_sell", 85)}
SignalLists ==
    [trend_signals : SeqsUpTo(SignalPool, MaxSignals),
     momentum_signals : SeqsUpTo(SignalPool, 1),
     volatility_signals : SeqsUpTo(SignalPool, 1),
     volume_signals : SeqsUpTo(SignalPool, 1)]

ScoreInit ==
    /\ pc = "score"
    /\ args \in SignalLists
    /\ result = TechnicalAnalysisResult("AAA", 0)
    /\ df = ShortFrame
    /\ provided = <<>>
    /\ all_trades = <<>>
    /\ i = 0
    /\ sim = SimStart

Score ==
    /\ pc = "score"
    /\ result' = Scored(result, args.trend_signals, args.momentum_signals,
                        args.volatility_signals, args.volume_signals)
    /\ pc' = "scored"
    /\ UNCHANGED <<args, provided, all_trades, df, i, sim>>

ScoreNext == Score

ScoreSpec == ScoreInit /\ [][ScoreNext]_vars

\* ---------------------------------------------------------------- claims
\* The open trade of the locals st (st.in_position holds).
OpenTrade(st) == CHOOSE t \in st.current_trade : TRUE
LastTrade(trades) == trades[Len(trades)]
\* The step is an iteration of the simulation loop.
IsBar == pc = "loop" /\ i < FrameLen(df) /\ i' = i + 1
\* The iteration closes the open trade.
Closes == Len(sim'.trades) = Len(sim.trades) + 1

\* C1: while a position is open, a bar on which the close is at or above
\* the target, at or below the stop, or on which the strategy says "sell"
\* closes the trade; the closed trade has hit_target exactly when the close
\* reached the target and hit_stop_loss exactly when it did not but reached
\* the stop, whatever the signal and the holding period; a trade closed for
\* another reason has both flags false.
ExitPriority ==
    [][(IsBar /\ sim.in_position) =>
        LET t == OpenTrade(sim)
            price == Num(Unit * CloseAt(df, i))
            a == Ge(price, t.target_price)
            b == Le(price, t.stop_loss)
            c == get_signal(df, i, args.strategy)[1] = "sell"
        IN  /\ (a \/ b \/ c) => Closes
            /\ Closes => /\ LastTrade(sim'.trades).hit_target = a
                         /\ LastTrade(sim'.trades).hit_stop_loss = (~a /\ b)
            /\ ~Closes => sim'.trades = sim.trades /\ sim'.current_trade = sim.current_trade
       ]_vars
\* The bar before i closed a trade at its target while the strategy said
\* "sell" on that bar.
ExitPriorityWitness ==
    /\ pc = "loop" /\ i > WarmUp /\ sim.trades # <<>>
    /\ LastTrade(sim.trades).exit_date = Some(DateAt(df, i - 1))
    /\ LastTrade(sim.trades).hit_target
    /\ ~LastTrade(sim.trades).hit_stop_loss
    /\ get_signal(df, i - 1, args.strategy)[1] = "sell"

\* C2: when no position is open at bar i, a trade is opened exactly when the
\* strategy, evaluated on the bars 0..i alone, says "buy" with a confidence
\* above 0.6; the trade is entered at the close of bar i with its target
\* 2 ATR(14) above and its stop 1.5 ATR(14) below the entry; otherwise no
\* trade is created and the simulator stays flat.
EntryRule ==
    [][(IsBar /\ ~sim.in_position) =>
        LET sig == get_signal(Truncate(df, i + 1), i, args.strategy)
            atr == calculate_atr(df, AtrPeriod, i)
            price == CloseAt(df, i)
        IN  /\ sim'.trades = sim.trades
            /\ IF sig[1] = "buy" /\ sig[2] > 600
               THEN /\ sim'.in_position
                    /\ OpenTrade(sim').entry_price = price
                    /\ OpenTrade(sim').entry_date = DateAt(df, i)
                    /\ OpenTrade(sim').exit_price = None
                    /\ OpenTrade(sim').target_price.nan = atr.nan
                    /\ OpenTrade(sim').stop_loss.nan = atr.nan
                    /\ ~atr.nan => /\ OpenTrade(sim').target_price.v = Unit * price + 2 * atr.v
                                   /\ 2 * OpenTrade(sim').stop_loss.v = 2 * Unit * price - 3 * atr.v
               ELSE ~sim'.in_position /\ sim'.current_trade = None
       ]_vars
\* The bar before i opened a trade with a positive ATR.
EntryRuleWitness ==
    /\ pc = "loop" /\ i > WarmUp /\ sim.in_position
    /\ OpenTrade(sim).entry_date = DateAt(df, i - 1)
    /\ Gt(OpenTrade(sim).target_price, Num(Unit * OpenTrade(sim).entry_price))
    /\ Lt(OpenTrade(sim).stop_loss, Num(Unit * OpenTrade(sim).entry_price))

\* The position of the bar at which the trade t of the frame f was entered.
EntryBar(f, t) == CHOOSE k \in 0..(FrameLen(f) - 1) : DateAt(f, k) = t.entry_date

\* C3: an open position is closed by the timeout exactly when it has been
\* held for more than 30 bars: a bar more than 30 bars after the entry bar
\* closes it, and a bar that closes it without target, stop or sell signal
\* is more than 30 bars after the entry bar, whatever the index of the frame.
TimeoutAfterThirtyBars ==
    [][(IsBar /\ sim.in_position) =>
        LET t == OpenTrade(sim)
            price == Num(Unit * CloseAt(df, i))
            a == Ge(price, t.target_price)
            b == Le(price, t.stop_loss)
            c == get_signal(df, i, args.strategy)[1] = "sell"
            held == i - EntryBar(df, t)
        IN  /\ held > 30 => Closes
            /\ (Closes /\ ~a /\ ~b /\ ~c) => held > 30
       ]_vars

\* C4: a trade entered on a bar whose ATR(14) is undefined has its target 2%
\* above and its stop 1.5% below the entry price, both defined.
AtrFallback ==
    (pc = "loop" /\ sim.in_position /\ calculate_atr(df, AtrPeriod, EntryBar(df, OpenTrade(sim))).nan) =>
        LET t == OpenTrade(sim)
        IN  /\ ~t.target_price.nan /\ ~t.stop_loss.nan
            /\ 100 * t.target_price.v = 102 * Unit * t.entry_price
            /\ 1000 * t.stop_loss.v = 985 * Unit * t.entry_price

\* q is p, or p with trades appended.
IsPrefix(p, q) == Len(p) <= Len(q) /\ SubSeq(q, 1, Len(p)) = p
IsClosedTrade(t) ==
    /\ t.exit_date # None /\ t.exit_price # None
    /\ \A x \in t.exit_price :
          t.return_percent = ((x - t.entry_price) * 100 * PctScale) \div t.entry_price

\* C5: the trade lists hold closed trades only, each with its exit date, its
\* exit price and return_percent = (exit - entry) / entry * 100; a trade is
\* appended by the bar that closes it, one at a time; a listed trade is never
\* changed or removed afterwards; and a position still open after the last
\* bar is not appended.
ClosedTradesOnly ==
    [][/\ \A j \in 1..Len(sim'.trades) : IsClosedTrade(sim'.trades[j])
       /\ \A j \in 1..Len(all_trades') : IsClosedTrade(all_trades'[j])
       /\ \A j \in 1..Len(result'.trades) : IsClosedTrade(result'.trades[j])
       /\ IsPrefix(all_trades, all_trades')
       /\ IsPrefix(result.trades, result'.trades)
       /\ (pc = "loop" /\ pc' = "loop") =>
             /\ IsPrefix(sim.trades, sim'.trades)
             /\ Len(sim'.trades) <= Len(sim.trades) + 1
             /\ Closes => /\ sim.in_position
                          /\ LastTrade(sim'.trades).exit_date = Some(DateAt(df, i))
                          /\ LastTrade(sim'.trades).exit_price = Some(CloseAt(df, i))
                          /\ LastTrade(sim'.trades).entry_date = OpenTrade(sim).entry_date
       /\ (pc = "loop" /\ pc' = "symbol") => all_trades' = all_trades \o sim.trades
       /\ pc' = "done" => result'.trades = all_trades'
      ]_vars
\* The run is over; a trade of the first symbol is listed before the trades
\* of the second symbol, whose last position was left open.
ClosedTradesOnlyWitness ==
    /\ pc = "done" /\ Len(result.trades) >= 2
    /\ result.trades[1].symbol # result.trades[2].symbol
    /\ sim.in_position

\* The trades _backtest_symbol returns for the k-th symbol of the call a when
\* the provider returns p for it.
Simulated(p) == p # None /\ \A f \in p : FrameLen(f) >= WarmUp /\ f.ohlc
SymbolTrades(a, k, p) ==
    IF ~Simulated(p) THEN <<>>
    ELSE RunFrom(CHOOSE f \in p : TRUE, WarmUp, a.symbols[k], PositionSize(a), a.strategy, SimStart).trades
\* The trades of a run over the symbols at the positions ks (in order) alone.
RECURSIVE RunTrades(_, _, _)
RunTrades(a, ks, ps) ==
    IF ks = <<>> THEN <<>>
    ELSE RunTrades(a, SubSeq(ks, 1, Len(ks) - 1), ps)
             \o SymbolTrades(a, ks[Len(ks)], ps[ks[Len(ks)]])
Positions(ps) == [k \in 1..Len(ps) |-> k]
SimulatedPositions(ps) == SelectSeq(Positions(ps), LAMBDA k : Simulated(ps[k]))

\* C6: a symbol whose history is None or too short, or whose simulation
\* raises, does not end the run and contributes no trade; after each symbol
\* the trades collected are those of a run over the simulated symbols alone,
\* and the run ends only when every symbol of the list has been handled.
FailureIsolation ==
    /\ pc = "symbol" =>
          /\ all_trades = RunTrades(args, SimulatedPositions(provided), provided)
          /\ \A j \in 1..Len(all_trades) :
                \E k \in 1..Len(provided) :
                    Simulated(provided[k]) /\ all_trades[j].symbol = args.symbols[k]
    /\ pc = "done" =>
          /\ Len(provided) = Len(args.symbols)
          /\ result.trades = RunTrades(args, SimulatedPositions(provided), provided)
          /\ \A k \in 1..Len(provided) :
                args.symbols[k] \in DOMAIN result.performance_by_symbol => Simulated(provided[k])
\* The run is over: the simulation of the first of two symbols raised and
\* the second symbol has a trade in the result.
FailureIsolationWitness ==
    /\ pc = "done" /\ Len(args.symbols) = 2
    /\ provided[1] = Some(NoHighFrame)
    /\ result.trades # <<>>
    /\ result.trades[1].symbol = args.symbols[2]

\* C7: a run without any trade returns a result with empty trades, zero
\* counts, win_rate, sharpe_ratio and max_drawdown_percent 0, no best or
\* worst trade, no per-symbol entry, and an unbounded profit_factor.
ZeroTradeDefaults ==
    (pc = "done" /\ all_trades = <<>>) =>
        /\ result.trades = <<>>
        /\ result.total_trades = 0 /\ result.winning_trades = 0 /\ result.losing_trades = 0
        /\ result.win_rate = 0 /\ result.sharpe_ratio = Sharpe(0, 0, 0)
        /\ result.max_drawdown_percent = 0
        /\ result.best_trade = None /\ result.worst_trade = None
        /\ DOMAIN result.performance_by_symbol = {}
        /\ result.profit_factor.inf

KnownStrategies == {"technical", "momentum", "mean_reversion"}

\* C8: with a strategy name other than "technical", "momentum" and
\* "mean_reversion" the signal is ("hold", 0.5) on every bar, no position is
\* ever open, no trade is listed, and the result of the run has no trade.
UnknownStrategyHolds ==
    args.strategy \notin KnownStrategies =>
        /\ pc = "loop" =>
              /\ \A k \in WarmUp..(FrameLen(df) - 1) : get_signal(df, k, args.strategy) = <<"hold", 500>>
              /\ ~sim.in_position /\ sim.current_trade = None /\ sim.trades = <<>>
        /\ all_trades = <<>>
        /\ result.trades = <<>> /\ result.total_trades = 0
\* A run with an unknown strategy name is over, on a history on which the
\* momentum strategy buys at the first simulated bar.
UnknownStrategyHoldsWitness ==
    /\ pc = "done" /\ args.strategy \notin KnownStrategies
    /\ Len(provided) = 1 /\ Simulated(provided[1])
    /\ \A f \in provided[1] : FrameLen(f) > WarmUp /\ momentum_strategy_signal(f, WarmUp) = <<"buy", 800>>

\* C9: after the bars before i are processed, the locals of the simulation
\* (position, open trade with its levels, listed trades) are those of a run
\* over the frame cut after bar i - 1: they do not depend on any later bar.
NoLookahead ==
    pc = "loop" =>
        sim = RunFrom(Truncate(df, i), WarmUp, args.symbols[SymbolIndex],
                      PositionSize(args), args.strategy, SimStart)
\* A trade is listed while bars are left, and the next bar closes away from
\* the last one.
NoLookaheadWitness ==
    /\ pc = "loop" /\ i < FrameLen(df)
    /\ sim.trades # <<>>
    /\ CloseAt(df, i) # CloseAt(df, i - 1)

\* The result run_backtest returns for the call a with end date end_date when
\* the provider returns ps.
ExpectedResult(a, end_date, ps) ==
    LET trades == RunTrades(a, Positions(ps), ps)
        r == BacktestResult(Some(a.start_date), end_date, a.symbols, a.initial_capital)
    IN  IF trades = <<>> THEN r ELSE calculate_metrics([r EXCEPT !.trades = trades])

\* C10: the result of a run (trades in order, every field, every metric) is
\* a function of the arguments of the call and of the bars provided for each
\* symbol; the wall clock enters only as the end date of a call without one.
Deterministic ==
    pc = "done" =>
        /\ args.end_date # None => result.end_date = args.end_date
        /\ result = ExpectedResult(args, result.end_date, provided)
\* A run with a given end date is over with trades of two symbols and a
\* Sharpe ratio.
DeterministicWitness ==
    /\ pc = "done" /\ args.end_date # None
    /\ result.total_trades >= 2 /\ result.sharpe_ratio # Sharpe(0, 0, 0)
    /\ DOMAIN result.performance_by_symbol = {"AAA", "BBB"}

\* The trades of the list that belong to the symbol.
TradesOf(trades, symbol) == SelectSeq(trades, LAMBDA t : t.symbol = symbol)

\* C11: the trades collected for a symbol are those of the simulation of its
\* own history alone (all fields), whatever the other symbols of the run and
\* their histories; while a symbol is simulated the trades collected so far
\* are left alone, and the result holds no trade and no metric before every
\* symbol has been handled.
SymbolIndependence ==
    /\ pc \in {"symbol", "done"} =>
          \A k \in 1..Len(provided) :
              TradesOf(all_trades, args.symbols[k]) = SymbolTrades(args, k, provided[k])
    /\ pc = "loop" =>
          \A k \in 1..(Len(provided) - 1) :
              TradesOf(all_trades, args.symbols[k]) = SymbolTrades(args, k, provided[k])
    /\ pc \in {"symbol", "loop"} =>
          result = BacktestResult(Some(args.start_date), result.end_date,
                                  args.symbols, args.initial_capital)
\* Two symbols with different histories have been simulated and each has a
\* trade in the list.
SymbolIndependenceWitness ==
    /\ pc = "symbol" /\ Len(provided) = 2
    /\ provided[1] # provided[2]
    /\ TradesOf(all_trades, args.symbols[1]) # <<>>
    /\ TradesOf(all_trades, args.symbols[2]) # <<>>

\* C12: a bar whose close equals the target of the open trade closes the
\* trade with hit_target, with the target as exit price and with
\* return_percent = (target - entry) / entry * 100.
ExactTargetExit ==
    [][(IsBar /\ sim.in_position
            /\ OpenTrade(sim).target_price = Num(Unit * CloseAt(df, i))) =>
        LET t == OpenTrade(sim)
        IN  /\ Closes
            /\ LastTrade(sim'.trades).hit_target
            /\ ~LastTrade(sim'.trades).hit_stop_loss
            /\ \A x \in LastTrade(sim'.trades).exit_price : Unit * x = t.target_price.v
            /\ LastTrade(sim'.trades).exit_date = Some(DateAt(df, i))
            /\ LastTrade(sim'.trades).return_percent =
                   ((t.target_price.v - Unit * t.entry_price) * 100 * PctScale)
                       \div (Unit * t.entry_price)
       ]_vars
\* The bar before i closed a trade at a close equal to its target, above the
\* entry price.
ExactTargetExitWitness ==
    /\ pc = "loop" /\ i > WarmUp /\ sim.trades # <<>>
    /\ LastTrade(sim.trades).exit_date = Some(DateAt(df, i - 1))
    /\ LastTrade(sim.trades).target_price = Num(Unit * CloseAt(df, i - 1))
    /\ LastTrade(sim.trades).hit_target
    /\ LastTrade(sim.trades).return_percent > 0

\* C13: on the rising history of 60 bars the technical strategy opens a
\* trade, the RSI vote ("sell") being outvoted by the MACD and the SMA votes,
\* and the first trade is closed at its target, with a positive return, at
\* most 30 bars after its entry.
RisingSeriesHitsTarget ==
    (pc = "loop" /\ df \in RisingFrames /\ args.strategy = "technical" /\ i = FrameLen(df)) =>
        /\ sim.trades # <<>>
        /\ sim.trades[1].hit_target
        /\ sim.trades[1].return_percent > 0
        /\ \A d \in sim.trades[1].exit_date :
              \E k \in WarmUp..(FrameLen(df) - 1) :
                  DateAt(df, k) = d /\ k - EntryBar(df, sim.trades[1]) <= 30
        /\ LET e == EntryBar(df, sim.trades[1])
           IN  /\ RsiVote(df, e) = << <<"sell", 800>> >>
               /\ MacdVote(df, e) = << <<"buy", 700>> >>
               /\ SmaVote(df, e) = << <<"buy", 750>> >>

\* The closed trades in chronological order: by exit date, trades closed on
\* the same date by entry date and then in the order of the list.
ExitDate(t) == CHOOSE d \in t.exit_date : TRUE
Earlier(trades, a, b) ==
    \/ ExitDate(trades[a]) < ExitDate(trades[b])
    \/ /\ ExitDate(trades[a]) = ExitDate(trades[b])
       /\ \/ trades[a].entry_date < trades[b].entry_date
          \/ trades[a].entry_date = trades[b].entry_date /\ a < b
Chronological(trades) ==
    [r \in 1..Len(trades) |->
        trades[CHOOSE a \in 1..Len(trades) :
                   Cardinality({b \in 1..Len(trades) : Earlier(trades, b, a)}) = r - 1]]

\* C14: max_drawdown_percent is the largest drop from a peak of the running
\* sum of return_percent over the trades of the run taken in chronological
\* order, whatever the order of the symbols in the call.
ChronologicalDrawdown ==
    (pc = "done" /\ result.trades # <<>>) =>
        result.max_drawdown_percent =
            MaxDrawdown(Returns(Chronological(result.trades)), 1, 0, 0, 0)

\* The number of trades of the list with a return above 0.
Wins(trades) == Cardinality({j \in 1..Len(trades) : trades[j].return_percent > 0})

\* C15 as stated: win_rate is the fraction winning_trades / total_trades,
\* between 0 and 1, a trade winning exactly when its return is above 0.
WinRateIsFraction ==
    (pc = "done" /\ result.trades # <<>>) =>
        /\ result.total_trades = Len(result.trades)
        /\ result.winning_trades = Wins(result.trades)
        /\ result.win_rate = (result.winning_trades * PctScale) \div result.total_trades
        /\ result.win_rate >= 0 /\ result.win_rate <= PctScale

\* C15: win_rate is the percentage winning_trades / total_trades * 100,
\* between 0 and 100, a trade winning exactly when its return is above 0.
WinRateIsPercent ==
    (pc = "done" /\ result.trades # <<>>) =>
        /\ result.total_trades = Len(result.trades)
        /\ result.winning_trades = Wins(result.trades)
        /\ result.losing_trades = result.total_trades - result.winning_trades
        /\ result.win_rate = (result.winning_trades * 100 * PctScale) \div result.total_trades
        /\ result.win_rate >= 0 /\ result.win_rate <= 100 * PctScale
\* A run is over with a winning and a losing trade.
WinRateIsPercentWitness ==
    /\ pc = "done"
    /\ result.winning_trades > 0
    /\ result.winning_trades < result.total_trades

\* The sum of profit_loss over the trades of the list that satisfy keep.
GrossOf(trades, keep(_)) ==
    SumOver([j \in 1..Len(trades) |-> IF keep(trades[j]) THEN trades[j].profit_loss ELSE 0],
            1, Len(trades))

SharpeRatioGuarded ==
    (pc = "done" /\ result.trades # <<>>) =>
        LET returns == Returns(result.trades)
            n == Len(returns)
            sum == SumOver(returns, 1, n)
            squares == SumOver([j \in 1..n |-> returns[j] * returns[j]], 1, n)
        IN  IF n < 2 \/ \A a, b \in 1..n : returns[a] = returns[b]
            THEN result.sharpe_ratio = Sharpe(0, 0, 0)
            ELSE /\ n * squares - sum * sum > 0
                 /\ result.sharpe_ratio = Sharpe(sum, n, n * squares - sum * sum)
                 /\ sum # 0 => result.sharpe_ratio # Sharpe(0, 0, 0)
\* A run is over with two trades of different returns.
SharpeRatioGuardedWitness ==
    /\ pc = "done" /\ Len(result.trades) = 2
    /\ result.trades[1].return_percent # result.trades[2].return_percent
    /\ result.sharpe_ratio # Sharpe(0, 0, 0)

\* calculate_all_indicators has returned.
IndicatorsDone == pc = "indicators_done"
\* The rolling sum of the losses over the window that ends at position p.
WindowLoss(f, period, p) ==
    SumOver([k \in (p - period + 1)..p |-> LossAt(f, k)], p - period + 1, p)

\* C18: every indicator series has one value per bar, undefined at the
\* positions 0..window-2 and defined from position window-1 on, for flat
\* inputs as for the others.
IndicatorSeriesDefined ==
    IndicatorsDone =>
        /\ DOMAIN result = 0..(FrameLen(df) - 1)
        /\ \A p \in DOMAIN result :
              /\ result[p].sma_20.nan <=> p < BbPeriod - 1
              /\ result[p].rsi_14.nan <=> p < RsiPeriod - 1
              /\ result[p].bb.nan <=> p < BbPeriod - 1
              /\ result[p].atr_14.nan <=> p < AtrPeriod - 1
              /\ result[p].stoch_k.nan <=> p < StochPeriod - 1

\* C19: a defined RSI lies in [0, 100], and the RSI is 100 wherever the
\* average loss over the trailing window is 0, the average gain being 0 or not.
RsiBounded ==
    IndicatorsDone =>
        \A p \in DOMAIN result :
            LET rsi == result[p].rsi_14
            IN  /\ ~rsi.nan => (rsi.num >= 0 /\ rsi.num <= 100 * rsi.den)
                /\ (p >= RsiPeriod - 1 /\ WindowLoss(df, RsiPeriod, p) = 0) =>
                       (~rsi.nan /\ rsi.num = 100 * rsi.den)

\* C20: the RSI and the ATR are undefined at every position whose window
\* contains position 0, where the close-to-close change and the previous
\* close are missing.
UndefinedNotCoerced ==
    IndicatorsDone =>
        \A p \in DOMAIN result :
            /\ p - RsiPeriod + 1 <= 0 => result[p].rsi_14.nan
            /\ p - AtrPeriod + 1 <= 0 => result[p].atr_14.nan

\* analyze has returned.
Analyzed == pc = "analyzed"

\* C21: analyze on fewer than 20 observations, an empty frame included,
\* returns a result without signals, with the four category scores and the
\* overall score at 50, the overall signal HOLD, the confidence 0.5 and empty
\* support, resistance and pattern lists.
InsufficientDefaults ==
    (Analyzed /\ FrameLen(df) < 20) =>
        /\ result.signals = <<>>
        /\ result.trend_score = Frac(50, 1) /\ result.momentum_score = Frac(50, 1)
        /\ result.volatility_score = Frac(50, 1) /\ result.volume_score = Frac(50, 1)
        /\ result.overall_score = Frac(50, 1)
        /\ result.overall_signal = "hold"
        /\ result.confidence = Frac(500, 1)
        /\ result.support_levels = <<>> /\ result.resistance_levels = <<>>
        /\ result.patterns_detected = <<>>
\* analyze has returned on a frame of 19 bars with a Volume column.
InsufficientDefaultsWitness ==
    Analyzed /\ FrameLen(df) = 19 /\ HasVolume(df) /\ result.signals = <<>>

\* The sum of weight(s) over the signals of the list.
Weigh(signals, weight(_)) ==
    SumOver([j \in 1..Len(signals) |-> weight(signals[j])], 1, Len(signals))
\* score is the strength-weighted mean of the values of the signals, 50
\* when there is none.
IsWeightedMean(score, signals) ==
    LET value(s) == CASE s.signal = "strong_buy" -> 100 [] s.signal = "buy" -> 75
                      [] s.signal = "hold" -> 50 [] s.signal = "sell" -> 25
                      [] s.signal = "strong_sell" -> 0
    IN  /\ score.den > 0
        /\ IF signals = <<>> THEN score.num = 50 * score.den
           ELSE score.num * Weigh(signals, LAMBDA s : s.strength)
                    = score.den * Weigh(signals, LAMBDA s : value(s) * s.strength)
InRange(score, lo, hi) == score.num >= lo * score.den /\ score.num <= hi * score.den

\* C22: each category score is the strength-weighted mean of the signal
\* values and 50 for an empty category; the overall score is 0.35 trend +
\* 0.30 momentum + 0.20 volatility + 0.15 volume; every score lies in
\* [0, 100]; the overall signal follows the thresholds 80, 60, 40 and 20.
ScoresAndSignal ==
    pc = "scored" =>
        LET t == result.trend_score
            m == result.momentum_score
            v == result.volatility_score
            w == result.volume_score
            o == result.overall_score
        IN  /\ IsWeightedMean(t, args.trend_signals)
            /\ IsWeightedMean(m, args.momentum_signals)
            /\ IsWeightedMean(v, args.volatility_signals)
            /\ IsWeightedMean(w, args.volume_signals)
            /\ o.den > 0
            /\ LET den == t.den * m.den * v.den * w.den
               IN  /\ (100 * den) % o.den = 0
                   /\ o.num * ((100 * den) \div o.den)
                          = 35 * t.num * (den \div t.den) + 30 * m.num * (den \div m.den)
                            + 20 * v.num * (den \div v.den) + 15 * w.num * (den \div w.den)
            /\ \A x \in {t, m, v, w, o} : InRange(x, 0, 100)
            /\ result.overall_signal =
                  (IF InRange(o, 80, 100) THEN "strong_buy"
                   ELSE IF InRange(o, 60, 100) THEN "buy"
                   ELSE IF InRange(o, 40, 100) THEN "hold"
                   ELSE IF InRange(o, 20, 100) THEN "sell"
                   ELSE "strong_sell")
\* Signals of different values and strengths in the trend category, an empty
\* volume category, scored to an overall BUY.
ScoresAndSignalWitness ==
    /\ pc = "scored"
    /\ Len(args.trend_signals) = 2
    /\ args.trend_signals[1].signal # args.trend_signals[2].signal
    /\ args.volume_signals = <<>>
    /\ result.overall_signal = "buy"

\* C23: the confidence lies in [0.1, 0.95]; it is 0.5 for no signal and
\* min(0.95, 0.4 + 0.5 * max(buy_count, sell_count) / total) otherwise.
ConfidenceClamped ==
    pc = "scored" =>
        LET signals == result.signals
            total == Len(signals)
            buy_count == Cardinality({j \in 1..total : signals[j].signal \in {"buy", "strong_buy"}})
            sell_count == Cardinality({j \in 1..total : signals[j].signal \in {"sell", "strong_sell"}})
            agreed == 400 * total + 500 * Max2(buy_count, sell_count)
            c == result.confidence
        IN  /\ signals = args.trend_signals \o args.momentum_signals
                             \o args.volatility_signals \o args.volume_signals
            /\ c.den > 0 /\ InRange(c, 100, 950)
            /\ IF total = 0 THEN c.num = 500 * c.den
               ELSE c.num * total = c.den * (IF agreed > 950 * total THEN 950 * total ELSE agreed)
\* Three signals, all on the sell side, are scored.
ConfidenceClampedWitness ==
    /\ pc = "scored" /\ Len(result.signals) >= 3
    /\ \A j \in 1..Len(result.signals) : result.signals[j].signal \in {"sell", "strong_sell"}
    /\ result.confidence = Frac(900, 1)

\* q is in ascending order.
IsAscending(q) == \A a, b \in 1..Len(q) : a < b => q[a] <= q[b]

\* C24: the support levels are in ascending order and below the current
\* price, the resistance levels in ascending order and above it, and each
\* list holds at most 3 levels.
LevelsSortedAscending ==
    (Analyzed /\ FrameLen(df) >= 20) =>
        /\ IsAscending(result.support_levels)
        /\ IsAscending(result.resistance_levels)
        /\ \A j \in 1..Len(result.support_levels) : result.support_levels[j] < result.current_price
        /\ \A j \in 1..Len(result.resistance_levels) : result.resistance_levels[j] > result.current_price
        /\ Len(result.support_levels) <= 3 /\ Len(result.resistance_levels) <= 3

\* The frame ends with 15 closes each below the one before, then one
\* close above the one before.
DeclineThenRebound(f) ==
    /\ FrameLen(f) >= 20
    /\ \A k \in (FrameLen(f) - 16)..(FrameLen(f) - 2) : CloseAt(f, k) < CloseAt(f, k - 1)
    /\ CloseAt(f, Last(f)) > CloseAt(f, FrameLen(f) - 2)
RsiSignals(signals) == SelectSeq(signals, LAMBDA s : s.indicator = "RSI")

\* C25 as stated: after 15 declining closes and a rebound bar of any size,
\* analyze produces an RSI signal STRONG_BUY of strength 0.85.
ReboundStrongBuy ==
    (Analyzed /\ DeclineThenRebound(df)) =>
        RsiSignals(result.signals) = <<TechnicalSignal("RSI", "strong_buy", 85)>>

\* C25: after 15 declining closes and a rebound bar, analyze produces one
\* RSI signal, which is STRONG_BUY of strength 0.85 exactly when the rise of
\* the rebound bar is less than 3/7 of the decline over the 13 bars before it.
ReboundRsiSignal ==
    (Analyzed /\ DeclineThenRebound(df)) =>
        LET rise == CloseAt(df, Last(df)) - CloseAt(df, FrameLen(df) - 2)
            decline == CloseAt(df, FrameLen(df) - 15) - CloseAt(df, FrameLen(df) - 2)
        IN  /\ Len(RsiSignals(result.signals)) = 1
            /\ RsiSignals(result.signals) = <<TechnicalSignal("RSI", "strong_buy", 85)>>
                   <=> 7 * rise < 3 * decline
\* analyze has returned STRONG_BUY for the RSI on such a frame.
ReboundRsiSignalWitness ==
    /\ Analyzed /\ DeclineThenRebound(df)
    /\ RsiSignals(result.signals) = <<TechnicalSignal("RSI", "strong_buy", 85)>>

\* The confidences of the votes cast for one direction at bar i, recomputed
\* from the indicator columns: RSI 0.8, MACD 0.7, moving averages 0.75.
VoteConfidences(f, k, side) ==
    LET rsi == calculate_rsi(f, RsiPeriod, k)
        m == calculate_macd(f, k)
        sma_20 == calculate_sma(f, 20, k)
        sma_50 == calculate_sma(f, 50, k)
        price == Num(Unit * CloseAt(f, k))
        rsi_vote == ~rsi.nan /\ IF side = "buy" THEN RsiLt(rsi, 30) ELSE RsiGt(rsi, 70)
        macd_vote == /\ ~m.macd.nan /\ ~m.signal.nan
                     /\ IF side = "buy" THEN Gt(m.macd, m.signal) ELSE ~Gt(m.macd, m.signal)
        sma_vote == /\ ~sma_20.nan /\ ~sma_50.nan
                    /\ IF side = "buy" THEN Gt(price, sma_20) /\ Gt(sma_20, sma_50)
                       ELSE Lt(price, sma_20) /\ Lt(sma_20, sma_50)
    IN  (IF rsi_vote THEN <<800>> ELSE <<>>)
            \o (IF macd_vote THEN <<700>> ELSE <<>>)
            \o (IF sma_vote THEN <<750>> ELSE <<>>)
AtTechnicalBar == pc = "loop" /\ i < FrameLen(df) /\ args.strategy = "technical"

\* C26: the "technical" strategy is a majority vote over RSI (< 30 buy, > 70
\* sell), MACD against its signal line and the price / SMA 20 / SMA 50
\* alignment: "buy" exactly when the buy votes strictly outnumber the sell
\* votes, "sell" exactly when the sell votes strictly outnumber the buy
\* votes, ("hold", 0.5) on a tie or without a vote; the confidence returned
\* is the mean of the confidences of the votes for the direction returned.
\* Stated of the signal every bar of a "technical" run is stepped with.
TechnicalMajorityVote ==
    [][(IsBar /\ AtTechnicalBar) =>
        LET buys == VoteConfidences(df, i, "buy")
            sells == VoteConfidences(df, i, "sell")
            sig == get_signal(Truncate(df, i + 1), i, args.strategy)
        IN  /\ sig[1] = "buy" <=> Len(buys) > Len(sells)
            /\ sig[1] = "sell" <=> Len(sells) > Len(buys)
            /\ Len(buys) = Len(sells) => sig = <<"hold", 500>>
            /\ sig[1] = "buy" => sig[2] * Len(buys) = SumSeq(buys)
            /\ sig[1] = "sell" => sig[2] * Len(sells) = SumSeq(sells)
            /\ (~sim.in_position /\ sig[1] = "buy") => sim'.in_position
            /\ (sim.in_position /\ sig[1] = "sell") => Closes
       ]_vars
\* A bar where as many buy votes as sell votes are cast, one at least, and
\* the result is the tie's hold.
TechnicalMajorityVoteWitness ==
    /\ AtTechnicalBar
    /\ VoteConfidences(df, i, "buy") # <<>>
    /\ Len(VoteConfidences(df, i, "buy")) = Len(VoteConfidences(df, i, "sell"))
    /\ get_signal(Truncate(df, i + 1), i, args.strategy) = <<"hold", 500>>

\* The trades recorded so far: those of the symbols done and those of the
\* symbol being simulated.
RecordedTrades == all_trades \o sim.trades
ExitClose(t) == Num(Unit * (CHOOSE x \in t.exit_price : TRUE))

\* C27: in every recorded trade hit_target and hit_stop_loss are never both
\* true; hit_target is true exactly when the exit close is at or above the
\* target, hit_stop_loss exactly when the exit close is at or below the stop
\* and below the target; with a non-negative ATR at entry (the target at or
\* above, the stop at or below the entry price) a hit_target trade has a
\* return >= 0 and a hit_stop_loss trade a return <= 0. Stated of every
\* trade a step adds to the recorded ones or changes among them.
FlagsExclusive ==
    [][\A j \in 1..Len(RecordedTrades') :
          (j > Len(RecordedTrades) \/ RecordedTrades'[j] # RecordedTrades[j]) =>
            LET t == RecordedTrades'[j]
                entry == Num(Unit * t.entry_price)
            IN  /\ ~(t.hit_target /\ t.hit_stop_loss)
                /\ t.hit_target <=> Ge(ExitClose(t), t.target_price)
                /\ t.hit_stop_loss <=> (/\ Le(ExitClose(t), t.stop_loss)
                                        /\ Lt(ExitClose(t), t.target_price))
                /\ (Ge(t.target_price, entry) /\ Le(t.stop_loss, entry)) =>
                       /\ t.hit_target => t.return_percent >= 0
                       /\ t.hit_stop_loss => t.return_percent <= 0
      ]_vars
\* A recorded trade entered with an ATR of 0 (target = stop = entry) and
\* closed at the entry price: at the target and at the stop at once, with
\* hit_target alone set and a return of 0.
FlagsExclusiveWitness ==
    \E j \in 1..Len(RecordedTrades) :
        LET t == RecordedTrades[j]
        IN  /\ t.target_price = t.stop_loss /\ ~t.target_price.nan
            /\ ExitClose(t) = t.target_price
            /\ t.hit_target /\ ~t.hit_stop_loss /\ t.return_percent = 0

\* The position of the bar at which the trade t of the frame f was closed.
ExitBar(f, t) == CHOOSE k \in 0..(FrameLen(f) - 1) : Some(DateAt(f, k)) = t.exit_date

\* C28: for a symbol at most one position is open at any time and its
\* recorded trades never overlap: every trade is closed at a bar strictly
\* after its entry bar, no trade is entered before bar 50, and a trade is
\* entered no earlier than the bar after the one that closed the trade before
\* it, so the trades of the symbol are in strictly increasing order.
NonOverlappingTrades ==
    pc = "loop" =>
        LET trades == sim.trades
        IN  /\ sim.in_position <=> sim.current_trade # None
            /\ \A j \in 1..Len(trades) :
                   /\ EntryBar(df, trades[j]) >= WarmUp
                   /\ EntryBar(df, trades[j]) < ExitBar(df, trades[j])
                   /\ ExitBar(df, trades[j]) < i
                   /\ j < Len(trades) =>
                          ExitBar(df, trades[j]) < EntryBar(df, trades[j + 1])
            /\ sim.in_position =>
                   /\ EntryBar(df, OpenTrade(sim)) >= WarmUp
                   /\ EntryBar(df, OpenTrade(sim)) < i
                   /\ OpenTrade(sim).exit_date = None
                   /\ trades # <<>> =>
                          ExitBar(df, LastTrade(trades)) < EntryBar(df, OpenTrade(sim))
\* A trade was closed at the bar before i while the strategy said "buy" above
\* 0.6 at that bar, and no position is open: the closing bar opened nothing.
NonOverlappingTradesWitness ==
    /\ pc = "loop" /\ sim.trades # <<>> /\ ~sim.in_position
    /\ ExitBar(df, LastTrade(sim.trades)) = i - 1
    /\ LET sig == get_signal(Truncate(df, i), i - 1, args.strategy)
       IN  sig[1] = "buy" /\ sig[2] > EntryConfidence

\* The sum of the values of f over the symbols of S.
RECURSIVE SumOfSymbols(_, _)
SumOfSymbols(f, S) ==
    IF S = {} THEN 0
    ELSE LET sym == CHOOSE x \in S : TRUE
         IN  f[sym] + SumOfSymbols(f, S \ {sym})
NotWon(trades) == Cardinality({j \in 1..Len(trades) : trades[j].return_percent <= 0})

\* C29: after _calculate_metrics on a non-empty trade list,
\* winning_trades + losing_trades = total_trades = len(trades), the trades
\* with a return of 0 or less (0 included) are the losing ones, the trade
\* counts of performance_by_symbol sum to total_trades, its total_return
\* values sum to total_return_percent, and max_drawdown_percent >= 0.
MetricsConsistent ==
    [][(pc' = "done" /\ all_trades # <<>>) =>
        LET by == result'.performance_by_symbol
            trades == result'.trades
        IN  /\ trades = all_trades
            /\ result'.total_trades = Len(trades)
            /\ result'.winning_trades + result'.losing_trades = result'.total_trades
            /\ result'.losing_trades = NotWon(trades)
            /\ DOMAIN by = {trades[j].symbol : j \in 1..Len(trades)}
            /\ SumOfSymbols([sym \in DOMAIN by |-> by[sym].trades], DOMAIN by)
                   = result'.total_trades
            /\ SumOfSymbols([sym \in DOMAIN by |-> by[sym].total_return], DOMAIN by)
                   = result'.total_return_percent
            /\ result'.max_drawdown_percent >= 0
      ]_vars
\* A run over two symbols is over; each symbol has a trade, one is won and
\* one is lost, and the returns do not cancel.
MetricsConsistentWitness ==
    /\ pc = "done"
    /\ Cardinality(DOMAIN result.performance_by_symbol) = 2
    /\ result.winning_trades > 0 /\ result.losing_trades > 0
    /\ result.total_return_percent # 0

\* C30: the entry test being the strict "confidence > 0.6", the weak buy
\* signals never open a trade. Under "momentum" a trade is opened exactly on
\* the strong signal (roc_10 > 5% and roc_20 > 10%, confidence 0.8), never on
\* the moderate buy (0.6); under "mean_reversion" exactly when the close is at
\* or below the lower Bollinger band (0.85), never on the below-middle buy
\* (0.55); under "technical" every buy has a confidence of 0.7 at least and
\* opens a trade when no position is open.
WeakSignalsNeverEnter ==
    [][(IsBar /\ ~sim.in_position) =>
        LET sig == get_signal(Truncate(df, i + 1), i, args.strategy)
            last == CloseAt(df, i)
            bb == calculate_bollinger_bands(df, BbPeriod, i)
            strong == /\ 100 * last > 105 * CloseAt(df, i - 9)
                      /\ 100 * last > 110 * CloseAt(df, i - 19)
            at_lower == ~bb.nan /\ LeLower(last, bb)
            opened == sim'.in_position
        IN  /\ args.strategy = "momentum" =>
                /\ opened <=> strong
                /\ opened => OpenTrade(sim').confidence = 800
                /\ sig = <<"buy", 600>> => ~opened
            /\ args.strategy = "mean_reversion" =>
                /\ opened <=> at_lower
                /\ opened => OpenTrade(sim').confidence = 850
                /\ sig = <<"buy", 550>> => ~opened
            /\ args.strategy = "technical" =>
                /\ sig[1] = "buy" => sig[2] >= 700
                /\ opened <=> sig[1] = "buy"
       ]_vars
\* Nothing has been opened up to bar i although the momentum strategy gave
\* its moderate buy (confidence 0.6) at the bar before.
WeakSignalsNeverEnterWitness ==
    /\ pc = "loop" /\ i > WarmUp /\ args.strategy = "momentum"
    /\ ~sim.in_position /\ sim.trades = <<>>
    /\ get_signal(Truncate(df, i), i - 1, args.strategy) = <<"buy", 600>>
====
